---- MODULE Spec2Model ----
(***************************************************************************)
(* Model of the pipeforge value/record model (domain) and of its           *)
(* structural diff engine (domain/sync).                                   *)
(*                                                                         *)
(* Go values are modelled as tagged TLA+ records.  A Go panic (a method    *)
(* call on a nil interface) is an outcome of its own: the comparison       *)
(* operators return the SET of outcomes a run can produce, because Go      *)
(* iterates maps in an unspecified order and the loops return early.       *)
(***************************************************************************)
EXTENDS Integers, Sequences, FiniteSets, TLC

VARIABLES
    pc,          \* "build" while the inputs are assembled, then the call made
    oldRecord,   \* *domain.Record passed as oldRecord (NilRecord = nil pointer)
    newRecord,   \* *domain.Record passed as newRecord
    index,       \* the index argument of CompareRecords
    options,     \* the opts ...CompareOption of the call, as <<path, key>> pairs
    delta,       \* what CompareRecords returned (RecordDelta or PanicResult)
    equal,       \* what RecordsEqual returned ("true", "false", "panic")
    oldSet,      \* *domain.RecordSet passed as oldSet (NilSet = nil pointer)
    newSet,      \* *domain.RecordSet passed as newSet
    setDelta,    \* what CompareRecordSets returned
    call,        \* the query made last on the options or on a delta
    returned     \* what that query returned

vars == <<pc, oldRecord, newRecord, index, options, delta, equal,
          oldSet, newSet, setDelta, call, returned>>

(***************************************************************************)
(* Bounds of the model.                                                    *)
(***************************************************************************)
MaxIndex == 1        \* index arguments are 0..MaxIndex
MaxRecords == 2      \* a RecordSet holds at most MaxRecords records

(***************************************************************************)
(* domain/data_type.go: schema types.  A DataSchema is a heap object, so   *)
(* two schemas are the same iff their pointers are (ptr), whatever the ID. *)
(***************************************************************************)
NativeType(n) == [kind |-> "native", name |-> n, schema |-> "-"]
NativeTypeString == NativeType("string")
NativeTypeInt == NativeType("int")
NativeTypeFloat == NativeType("float")
NativeTypeDate == NativeType("date")
NativeTypeBool == NativeType("bool")

\* a nil SchemaType interface
NilType == [kind |-> "nil", name |-> "", schema |-> "-"]

DataSchema(ptr, id) == [ptr |-> ptr, ID |-> id]
NilSchema == DataSchema("nil", "")

CustomType(name, schema) == [kind |-> "custom", name |-> name, schema |-> schema.ptr]

\* the schemas of the inputs; Product2 is another object with the same ID
StoreSchema == DataSchema("s0", "Store")
ProductSchema == DataSchema("s1", "Product")
Product2Schema == DataSchema("s2", "Product")

(***************************************************************************)
(* Record.go: the Value variants and the Record.                           *)
(***************************************************************************)
StringValue(s) == [tag |-> "String", str |-> s]
IntValue(i) == [tag |-> "Int", int |-> i]
\* a float64 is a number or NaN
FloatValue(f) == [tag |-> "Float", float |-> f, nan |-> FALSE]
FloatNaN == [tag |-> "Float", float |-> 0, nan |-> TRUE]
\* a time.Time is an instant shown in a location
DateValue(instant, loc) == [tag |-> "Date", instant |-> instant, loc |-> loc]
BoolValue(b) == [tag |-> "Bool", bool |-> b]
NullValue(type) == [tag |-> "Null", type |-> type]
ArrayValue(elementType, elements) ==
    [tag |-> "Array", ElementType |-> elementType, Elements |-> elements]
RecordValue(record) == [tag |-> "Record", Record |-> record]
\* a Value implementation the engine does not know (customValue of the tests):
\* GetType is NativeTypeString, IsNull is false
customValue == [tag |-> "Custom"]
\* a nil Value interface
NilValue == [tag |-> "Nil"]

\* a nil *Record
NilRecord == [nil |-> TRUE]
\* the empty value map
NoValues == [c \in {} |-> NilValue]
Record(schema, values) == [Schema |-> schema, Values |-> values]
NewRecord(schema) == Record(schema, NoValues)

\* r.Values[columnID]: the zero Value (nil) when the column is absent
Get(r, columnID) ==
    IF columnID \in DOMAIN r.Values THEN r.Values[columnID] ELSE NilValue

\* r.Values[columnID] = value
Set(r, columnID, value) ==
    Record(r.Schema,
           [c \in (DOMAIN r.Values) \cup {columnID} |->
               IF c = columnID THEN value ELSE r.Values[c]])

\* v.IsNull(), for a non-nil v
IsNull(v) ==
    CASE v.tag = "Null" -> TRUE
      [] v.tag = "Record" -> v.Record = NilRecord
      [] OTHER -> FALSE

\* v.GetType(), for a non-nil v
GetType(v) ==
    CASE v.tag = "String" -> NativeTypeString
      [] v.tag = "Int" -> NativeTypeInt
      [] v.tag = "Float" -> NativeTypeFloat
      [] v.tag = "Date" -> NativeTypeDate
      [] v.tag = "Bool" -> NativeTypeBool
      [] v.tag = "Null" -> v.type
      [] v.tag = "Array" -> v.ElementType
      [] v.tag = "Record" ->
            IF v.Record = NilRecord \/ v.Record.Schema = NilSchema
            THEN NilType
            ELSE CustomType(v.Record.Schema.ID, v.Record.Schema)
      [] v.tag = "Custom" -> NativeTypeString

(***************************************************************************)
(* domain/sync/options.go: compare options.                                *)
(***************************************************************************)
\* a nil *CompareOptions
NilOptions == [nil |-> TRUE]
NoKeys == [p \in {} |-> ""]

\* the option WithArrayKey(fieldPath, keyColumn) applied to o
WithArrayKey(o, fieldPath, keyColumn) ==
    [ArrayKeys |-> [p \in (DOMAIN o.ArrayKeys) \cup {fieldPath} |->
                       IF p = fieldPath THEN keyColumn ELSE o.ArrayKeys[p]]]

\* a CompareOptions whose ArrayKeys map is nil
NilKeysOptions == [nilArrayKeys |-> TRUE]

\* NewCompareOptions in which the first WithArrayKey of a path is kept
RECURSIVE NewCompareOptionsFirstWins(_)
NewCompareOptionsFirstWins(opts) ==
    IF opts = <<>>
    THEN [ArrayKeys |-> NoKeys]
    ELSE WithArrayKey(NewCompareOptionsFirstWins(Tail(opts)),
                      opts[1][1], opts[1][2])

\* opts is the sequence of <<fieldPath, keyColumn>> of the WithArrayKey options
RECURSIVE NewCompareOptions(_)
NewCompareOptions(opts) ==
    IF opts = <<>>
    THEN [ArrayKeys |-> NoKeys]
    ELSE LET n == Len(opts)
         IN  WithArrayKey(NewCompareOptions(SubSeq(opts, 1, n - 1)),
                          opts[n][1], opts[n][2])

GetArrayKey(o, fieldPath) ==
    IF o = NilOptions \/ o = NilKeysOptions
    THEN ""
    ELSE IF fieldPath \in DOMAIN o.ArrayKeys THEN o.ArrayKeys[fieldPath] ELSE ""

(***************************************************************************)
(* domain/sync/delta.go: change kinds and delta structures.                *)
(***************************************************************************)
FieldUnchanged == 0
FieldAdded == 1
FieldUpdated == 2
FieldDeleted == 3

RecordUnchanged == 0
RecordAdded == 1
RecordModified == 2
RecordDeleted == 3

FieldDelta(columnID, changeType, oldValue, newValue) ==
    [ColumnID |-> columnID, ChangeType |-> changeType,
     OldValue |-> oldValue, NewValue |-> newValue]

RecordDelta(i, changeType, old, new, fieldDeltas) ==
    [Index |-> i, ChangeType |-> changeType, OldRecord |-> old,
     NewRecord |-> new, FieldDeltas |-> fieldDeltas]

\* the call did not return: it panicked
PanicResult == [panic |-> TRUE]

(***************************************************************************)
(* Loops.  The outcome of one comparison is "true", "false" or "panic";    *)
(* an operator returns the set of outcomes its runs can have.              *)
(***************************************************************************)
Bool(b) == IF b THEN {"true"} ELSE {"false"}

\* `for ... { if !eq(i) { return false } }; return true` over a slice:
\* steps[i] is the set of outcomes of eq(i); a step is run only when every
\* step before it was "true"
RECURSIVE loopInOrder(_)
loopInOrder(steps) ==
    IF steps = <<>>
    THEN {"true"}
    ELSE (Head(steps) \ {"true"})
         \cup (IF "true" \in Head(steps) THEN loopInOrder(Tail(steps)) ELSE {})

\* the orders in which `range` may visit the keys of a Go map
Orders(keys) ==
    {ord \in [1..Cardinality(keys) -> keys] :
        \A i, j \in 1..Cardinality(keys) : i # j => ord[i] # ord[j]}

\* the same loop over a map: per[k] is the set of outcomes for key k
loopOverMap(per) ==
    UNION {loopInOrder([i \in 1..Cardinality(DOMAIN per) |-> per[ord[i]]]) :
              ord \in Orders(DOMAIN per)}

(***************************************************************************)
(* domain/sync/compare.go: structural equality.                            *)
(***************************************************************************)
DigitChars == <<"0", "1", "2", "3", "4", "5", "6", "7", "8", "9">>

\* strconv.FormatInt(i, 10)
RECURSIVE FormatNat(_)
FormatNat(n) ==
    IF n < 10
    THEN DigitChars[n + 1]
    ELSE FormatNat(n \div 10) \o DigitChars[(n % 10) + 1]

FormatInt(i) == IF i < 0 THEN "-" \o FormatNat(-i) ELSE FormatNat(i)

valueToString(v) ==
    IF v = NilValue \/ IsNull(v)
    THEN ""
    ELSE CASE v.tag = "String" -> v.str
           [] v.tag = "Int" -> FormatInt(v.int)
           [] OTHER -> ""

\* key string -> element; a later element replaces an earlier one
RECURSIVE buildArrayKeyMap(_, _)
buildArrayKeyMap(elements, keyColumn) ==
    IF elements = <<>>
    THEN [k \in {} |-> NilValue]
    ELSE LET n == Len(elements)
             elem == elements[n]
             result == buildArrayKeyMap(SubSeq(elements, 1, n - 1), keyColumn)
         IN  IF elem.tag # "Record" \/ elem.Record = NilRecord
             THEN result
             ELSE LET keyVal == Get(elem.Record, keyColumn)
                      keyStr == valueToString(keyVal)
                  IN  IF keyVal = NilValue
                      THEN result
                      ELSE [k \in (DOMAIN result) \cup {keyStr} |->
                               IF k = keyStr THEN elem ELSE result[k]]

RECURSIVE valuesEqualWithOptions(_, _, _, _)
RECURSIVE arraysEqual(_, _, _, _)
RECURSIVE arraysEqualByKey(_, _, _, _, _)
RECURSIVE RecordsEqual(_, _)

\* without options, "for backward compatibility"
valuesEqual(a, b) == valuesEqualWithOptions(a, b, "", NilOptions)

\* valuesEqualWithOptions without the comparison of the reported types
valuesEqualNoTypeCheck(a, b, fieldPath, opt) ==
    IF a = NilValue \/ b = NilValue
    THEN {"panic"}
    ELSE CASE a.tag = "String" -> Bool(b.tag = "String" /\ a.str = b.str)
           [] a.tag = "Int" -> Bool(b.tag = "Int" /\ a.int = b.int)
           [] a.tag = "Float" ->
                 Bool(b.tag = "Float" /\ ~a.nan /\ ~b.nan /\ a.float = b.float)
           [] a.tag = "Bool" -> Bool(b.tag = "Bool" /\ a.bool = b.bool)
           [] a.tag = "Date" -> Bool(b.tag = "Date" /\ a.instant = b.instant)
           [] a.tag = "Array" ->
                 IF b.tag # "Array"
                 THEN {"false"}
                 ELSE arraysEqual(a, b, fieldPath, opt)
           [] a.tag = "Record" ->
                 IF b.tag # "Record"
                 THEN {"false"}
                 ELSE RecordsEqual(a.Record, b.Record)
           [] OTHER -> {"false"}

\* valuesEqualWithOptions whose default case is "equal" when b is of the
\* same variant
valuesEqualFailOpen(a, b, fieldPath, opt) ==
    IF a = NilValue \/ b = NilValue
    THEN {"panic"}
    ELSE IF GetType(a) # GetType(b)
    THEN {"false"}
    ELSE CASE a.tag = "String" -> Bool(b.tag = "String" /\ a.str = b.str)
           [] a.tag = "Int" -> Bool(b.tag = "Int" /\ a.int = b.int)
           [] a.tag = "Float" ->
                 Bool(b.tag = "Float" /\ ~a.nan /\ ~b.nan /\ a.float = b.float)
           [] a.tag = "Bool" -> Bool(b.tag = "Bool" /\ a.bool = b.bool)
           [] a.tag = "Date" -> Bool(b.tag = "Date" /\ a.instant = b.instant)
           [] a.tag = "Array" ->
                 IF b.tag # "Array"
                 THEN {"false"}
                 ELSE arraysEqual(a, b, fieldPath, opt)
           [] a.tag = "Record" ->
                 IF b.tag # "Record"
                 THEN {"false"}
                 ELSE RecordsEqual(a.Record, b.Record)
           [] OTHER -> Bool(a.tag = b.tag)

\* valuesEqualWithOptions that takes the options into nested records: the
\* columns of a nested record are compared under the path fieldPath.column
valuesEqualNestedPaths(a, b, fieldPath, opt) ==
    LET nested(x, y) ==
            IF x = NilRecord /\ y = NilRecord
            THEN {"true"}
            ELSE IF x = NilRecord \/ y = NilRecord
            THEN {"false"}
            ELSE IF Cardinality(DOMAIN x.Values) # Cardinality(DOMAIN y.Values)
            THEN {"false"}
            ELSE loopOverMap([colID \in DOMAIN x.Values |->
                    IF colID \notin DOMAIN y.Values
                    THEN {"false"}
                    ELSE valuesEqualWithOptions(x.Values[colID], y.Values[colID],
                                                fieldPath \o "." \o colID, opt)])
    IN  IF a = NilValue \/ b = NilValue
        THEN {"panic"}
        ELSE IF GetType(a) # GetType(b)
        THEN {"false"}
        ELSE CASE a.tag = "String" -> Bool(b.tag = "String" /\ a.str = b.str)
               [] a.tag = "Int" -> Bool(b.tag = "Int" /\ a.int = b.int)
               [] a.tag = "Float" ->
                     Bool(b.tag = "Float" /\ ~a.nan /\ ~b.nan /\ a.float = b.float)
               [] a.tag = "Bool" -> Bool(b.tag = "Bool" /\ a.bool = b.bool)
               [] a.tag = "Date" -> Bool(b.tag = "Date" /\ a.instant = b.instant)
               [] a.tag = "Array" ->
                     IF b.tag # "Array"
                     THEN {"false"}
                     ELSE arraysEqual(a, b, fieldPath, opt)
               [] a.tag = "Record" ->
                     IF b.tag # "Record"
                     THEN {"false"}
                     ELSE nested(a.Record, b.Record)
               [] OTHER -> {"false"}

valuesEqualWithOptions(a, b, fieldPath, opt) ==
    IF a = NilValue \/ b = NilValue
    THEN {"panic"}     \* a.GetType() != b.GetType() on a nil interface
    ELSE IF GetType(a) # GetType(b)
    THEN {"false"}
    ELSE CASE a.tag = "String" -> Bool(b.tag = "String" /\ a.str = b.str)
           [] a.tag = "Int" -> Bool(b.tag = "Int" /\ a.int = b.int)
           [] a.tag = "Float" ->
                 \* float64 ==: NaN equals nothing
                 Bool(b.tag = "Float" /\ ~a.nan /\ ~b.nan /\ a.float = b.float)
           [] a.tag = "Bool" -> Bool(b.tag = "Bool" /\ a.bool = b.bool)
           [] a.tag = "Date" ->
                 \* time.Time.Equal: the same instant
                 Bool(b.tag = "Date" /\ a.instant = b.instant)
           [] a.tag = "Array" ->
                 IF b.tag # "Array"
                 THEN {"false"}
                 ELSE arraysEqual(a, b, fieldPath, opt)
           [] a.tag = "Record" ->
                 IF b.tag # "Record"
                 THEN {"false"}
                 ELSE RecordsEqual(a.Record, b.Record)
           [] OTHER -> {"false"}

\* arraysEqual that compares by index without comparing the lengths first
arraysEqualCommonPrefix(a, b, fieldPath, opt) ==
    LET keyColumn == IF opt # NilOptions THEN GetArrayKey(opt, fieldPath) ELSE ""
        n == IF Len(a.Elements) < Len(b.Elements) THEN Len(a.Elements)
                                                  ELSE Len(b.Elements)
    IN  IF keyColumn = ""
        THEN loopInOrder([i \in 1..n |->
                valuesEqualWithOptions(a.Elements[i], b.Elements[i],
                                       fieldPath, opt)])
        ELSE arraysEqualByKey(a, b, keyColumn, fieldPath, opt)

arraysEqual(a, b, fieldPath, opt) ==
    LET keyColumn == IF opt # NilOptions THEN GetArrayKey(opt, fieldPath) ELSE ""
    IN  IF keyColumn = ""
        THEN IF Len(a.Elements) # Len(b.Elements)
             THEN {"false"}
             ELSE loopInOrder([i \in 1..Len(a.Elements) |->
                     valuesEqualWithOptions(a.Elements[i], b.Elements[i],
                                            fieldPath, opt)])
        ELSE arraysEqualByKey(a, b, keyColumn, fieldPath, opt)

\* arraysEqualByKey without the comparison of the sizes of the key maps
arraysEqualByKeyNoSizeCheck(a, b, keyColumn, fieldPath, opt) ==
    LET aMap == buildArrayKeyMap(a.Elements, keyColumn)
        bMap == buildArrayKeyMap(b.Elements, keyColumn)
    IN  loopOverMap([key \in DOMAIN aMap |->
            IF key \notin DOMAIN bMap
            THEN {"false"}
            ELSE valuesEqualWithOptions(aMap[key], bMap[key], fieldPath, opt)])

arraysEqualByKey(a, b, keyColumn, fieldPath, opt) ==
    LET aMap == buildArrayKeyMap(a.Elements, keyColumn)
        bMap == buildArrayKeyMap(b.Elements, keyColumn)
    IN  IF Cardinality(DOMAIN aMap) # Cardinality(DOMAIN bMap)
        THEN {"false"}
        ELSE loopOverMap([key \in DOMAIN aMap |->
                IF key \notin DOMAIN bMap
                THEN {"false"}
                ELSE valuesEqualWithOptions(aMap[key], bMap[key], fieldPath, opt)])

\* RecordsEqual without the comparison of the sizes of the value maps
RecordsEqualNoSizeCheck(a, b) ==
    IF a = NilRecord /\ b = NilRecord
    THEN {"true"}
    ELSE IF a = NilRecord \/ b = NilRecord
    THEN {"false"}
    ELSE loopOverMap([colID \in DOMAIN a.Values |->
            IF colID \notin DOMAIN b.Values
            THEN {"false"}
            ELSE valuesEqual(a.Values[colID], b.Values[colID])])

RecordsEqual(a, b) ==
    IF a = NilRecord /\ b = NilRecord
    THEN {"true"}
    ELSE IF a = NilRecord \/ b = NilRecord
    THEN {"false"}
    ELSE IF Cardinality(DOMAIN a.Values) # Cardinality(DOMAIN b.Values)
    THEN {"false"}
    ELSE loopOverMap([colID \in DOMAIN a.Values |->
            IF colID \notin DOMAIN b.Values
            THEN {"false"}
            ELSE valuesEqual(a.Values[colID], b.Values[colID])])

(***************************************************************************)
(* domain/sync/compare.go: record comparison.                              *)
(***************************************************************************)
\* compareFieldValues without the Deleted case: a value replaced by null is
\* reported Updated
compareFieldValuesNoDeleted(columnID, oldValue, newValue, fieldPath, opt) ==
    LET oldIsNull == oldValue = NilValue \/ IsNull(oldValue)
        newIsNull == newValue = NilValue \/ IsNull(newValue)
    IN  IF oldIsNull /\ newIsNull
        THEN {FieldDelta(columnID, FieldUnchanged, oldValue, newValue)}
        ELSE IF oldIsNull /\ ~newIsNull
        THEN {FieldDelta(columnID, FieldAdded, oldValue, newValue)}
        ELSE IF ~oldIsNull /\ newIsNull
        THEN {FieldDelta(columnID, FieldUpdated, oldValue, newValue)}
        ELSE {CASE eq = "true" ->
                      FieldDelta(columnID, FieldUnchanged, oldValue, newValue)
                [] eq = "false" ->
                      FieldDelta(columnID, FieldUpdated, oldValue, newValue)
                [] OTHER -> PanicResult :
              eq \in valuesEqualWithOptions(oldValue, newValue, fieldPath, opt)}

\* compareFieldValues that takes only an absent column or a Null for null,
\* not a nested-record value without record
compareFieldValuesNullOnly(columnID, oldValue, newValue, fieldPath, opt) ==
    LET oldIsNull == oldValue = NilValue \/ oldValue.tag = "Null"
        newIsNull == newValue = NilValue \/ newValue.tag = "Null"
    IN  IF oldIsNull /\ newIsNull
        THEN {FieldDelta(columnID, FieldUnchanged, oldValue, newValue)}
        ELSE IF oldIsNull /\ ~newIsNull
        THEN {FieldDelta(columnID, FieldAdded, oldValue, newValue)}
        ELSE IF ~oldIsNull /\ newIsNull
        THEN {FieldDelta(columnID, FieldDeleted, oldValue, newValue)}
        ELSE {CASE eq = "true" ->
                      FieldDelta(columnID, FieldUnchanged, oldValue, newValue)
                [] eq = "false" ->
                      FieldDelta(columnID, FieldUpdated, oldValue, newValue)
                [] OTHER -> PanicResult :
              eq \in valuesEqualWithOptions(oldValue, newValue, fieldPath, opt)}

compareFieldValues(columnID, oldValue, newValue, fieldPath, opt) ==
    LET oldIsNull == oldValue = NilValue \/ IsNull(oldValue)
        newIsNull == newValue = NilValue \/ IsNull(newValue)
    IN  IF oldIsNull /\ newIsNull
        THEN {FieldDelta(columnID, FieldUnchanged, oldValue, newValue)}
        ELSE IF oldIsNull /\ ~newIsNull
        THEN {FieldDelta(columnID, FieldAdded, oldValue, newValue)}
        ELSE IF ~oldIsNull /\ newIsNull
        THEN {FieldDelta(columnID, FieldDeleted, oldValue, newValue)}
        ELSE {CASE eq = "true" ->
                      FieldDelta(columnID, FieldUnchanged, oldValue, newValue)
                [] eq = "false" ->
                      FieldDelta(columnID, FieldUpdated, oldValue, newValue)
                [] OTHER -> PanicResult :
              eq \in valuesEqualWithOptions(oldValue, newValue, fieldPath, opt)}

\* what compareFields returns: the deltas appended, unless a step panicked
Fields(deltas) == [panic |-> FALSE, deltas |-> deltas]
PanicFields == [panic |-> TRUE, deltas |-> <<>>]

\* `for ... { deltas = append(deltas, step(i)) }`: steps[i] is the set of
\* results of step i (a FieldDelta or PanicResult)
RECURSIVE appendInOrder(_)
appendInOrder(steps) ==
    IF steps = <<>>
    THEN {Fields(<<>>)}
    ELSE LET done == Head(steps) \ {PanicResult}
             rest == IF done = {} THEN {} ELSE appendInOrder(Tail(steps))
         IN  (IF PanicResult \in Head(steps) \/ PanicFields \in rest
              THEN {PanicFields} ELSE {})
             \cup {Fields(<<d>> \o r.deltas) : d \in done, r \in rest \ {PanicFields}}

compareFields(old, new, parentPath, opt) ==
    LET allColumns == (DOMAIN old.Values) \cup (DOMAIN new.Values)
        fieldPath(colID) == IF parentPath # "" THEN parentPath \o "." \o colID
                                               ELSE colID
        per == [colID \in allColumns |->
                   compareFieldValues(colID, Get(old, colID), Get(new, colID),
                                      fieldPath(colID), opt)]
    IN  UNION {appendInOrder([i \in 1..Cardinality(allColumns) |-> per[ord[i]]]) :
                  ord \in Orders(allColumns)}

\* CompareRecords that returns copies of the records it was given: the
\* records of the delta are new objects with the schema and the values of
\* the inputs
CompareRecordsCopying(old, new, i, opts) ==
    LET opt == NewCompareOptions(opts)
        copy(r) == Record(r.Schema, r.Values)
    IN  IF old = NilRecord /\ new = NilRecord
        THEN {RecordDelta(i, RecordUnchanged, NilRecord, NilRecord, <<>>)}
        ELSE IF old = NilRecord
        THEN {RecordDelta(i, RecordAdded, NilRecord, copy(new), <<>>)}
        ELSE IF new = NilRecord
        THEN {RecordDelta(i, RecordDeleted, copy(old), NilRecord, <<>>)}
        ELSE {IF f.panic
              THEN PanicResult
              ELSE LET hasChanges == \E k \in 1..Len(f.deltas) :
                                        f.deltas[k].ChangeType # FieldUnchanged
                   IN  RecordDelta(i,
                                   IF hasChanges THEN RecordModified
                                                 ELSE RecordUnchanged,
                                   copy(old), copy(new), f.deltas) :
              f \in compareFields(old, new, "", opt)}

\* CompareRecords with the Added and the Deleted case exchanged
CompareRecordsNilSwapped(old, new, i, opts) ==
    LET opt == NewCompareOptions(opts)
    IN  IF old = NilRecord /\ new = NilRecord
        THEN {RecordDelta(i, RecordUnchanged, NilRecord, NilRecord, <<>>)}
        ELSE IF old = NilRecord
        THEN {RecordDelta(i, RecordDeleted, NilRecord, new, <<>>)}
        ELSE IF new = NilRecord
        THEN {RecordDelta(i, RecordAdded, old, NilRecord, <<>>)}
        ELSE {IF f.panic
              THEN PanicResult
              ELSE LET hasChanges == \E k \in 1..Len(f.deltas) :
                                        f.deltas[k].ChangeType # FieldUnchanged
                   IN  RecordDelta(i,
                                   IF hasChanges THEN RecordModified
                                                 ELSE RecordUnchanged,
                                   old, new, f.deltas) :
              f \in compareFields(old, new, "", opt)}

\* CompareRecords that looks at the first field delta only
CompareRecordsFirstFieldOnly(old, new, i, opts) ==
    LET opt == NewCompareOptions(opts)
    IN  IF old = NilRecord /\ new = NilRecord
        THEN {RecordDelta(i, RecordUnchanged, NilRecord, NilRecord, <<>>)}
        ELSE IF old = NilRecord
        THEN {RecordDelta(i, RecordAdded, NilRecord, new, <<>>)}
        ELSE IF new = NilRecord
        THEN {RecordDelta(i, RecordDeleted, old, NilRecord, <<>>)}
        ELSE {IF f.panic
              THEN PanicResult
              ELSE LET hasChanges == /\ f.deltas # <<>>
                                     /\ f.deltas[1].ChangeType # FieldUnchanged
                   IN  RecordDelta(i,
                                   IF hasChanges THEN RecordModified
                                                 ELSE RecordUnchanged,
                                   old, new, f.deltas) :
              f \in compareFields(old, new, "", opt)}

CompareRecords(old, new, i, opts) ==
    LET opt == NewCompareOptions(opts)
    IN  IF old = NilRecord /\ new = NilRecord
        THEN {RecordDelta(i, RecordUnchanged, NilRecord, NilRecord, <<>>)}
        ELSE IF old = NilRecord
        THEN {RecordDelta(i, RecordAdded, NilRecord, new, <<>>)}
        ELSE IF new = NilRecord
        THEN {RecordDelta(i, RecordDeleted, old, NilRecord, <<>>)}
        ELSE {IF f.panic
              THEN PanicResult
              ELSE LET hasChanges == \E k \in 1..Len(f.deltas) :
                                        f.deltas[k].ChangeType # FieldUnchanged
                   IN  RecordDelta(i,
                                   IF hasChanges THEN RecordModified
                                                 ELSE RecordUnchanged,
                                   old, new, f.deltas) :
              f \in compareFields(old, new, "", opt)}

(***************************************************************************)
(* RecordSet (domain) and CompareRecordSets (domain/sync/compare.go).      *)
(***************************************************************************)
\* a nil *RecordSet
NilSet == [nil |-> TRUE]
RecordSet(schema, records) == [Schema |-> schema, Records |-> records]
NewRecordSet(schema) == RecordSet(schema, <<>>)

\* rs.Records = append(rs.Records, record)
Add(rs, record) == RecordSet(rs.Schema, Append(rs.Records, record))

RecordSetDelta(schema, recordDeltas) ==
    [Schema |-> schema, RecordDeltas |-> recordDeltas]

\* RecordDelta.HasChanges
RecordDeltaHasChanges(rd) == rd.ChangeType # RecordUnchanged

\* `for _, fd := range fieldDeltas { if fd.ChangeType == changeType {
\* fields = append(fields, fd.ColumnID) } }`
RECURSIVE fieldsOfKind(_, _)
fieldsOfKind(fieldDeltas, changeType) ==
    IF fieldDeltas = <<>>
    THEN <<>>
    ELSE IF Head(fieldDeltas).ChangeType = changeType
    THEN <<Head(fieldDeltas).ColumnID>>
            \o fieldsOfKind(Tail(fieldDeltas), changeType)
    ELSE fieldsOfKind(Tail(fieldDeltas), changeType)

\* the same loop with `fd.ChangeType != changeType`
RECURSIVE fieldsNotOfKind(_, _)
fieldsNotOfKind(fieldDeltas, changeType) ==
    IF fieldDeltas = <<>>
    THEN <<>>
    ELSE IF Head(fieldDeltas).ChangeType # changeType
    THEN <<Head(fieldDeltas).ColumnID>>
            \o fieldsNotOfKind(Tail(fieldDeltas), changeType)
    ELSE fieldsNotOfKind(Tail(fieldDeltas), changeType)

\* ChangedFields that lists the updated fields only
ChangedFieldsUpdatedOnly(rd) == fieldsOfKind(rd.FieldDeltas, FieldUpdated)

ChangedFields(rd) == fieldsNotOfKind(rd.FieldDeltas, FieldUnchanged)
AddedFields(rd) == fieldsOfKind(rd.FieldDeltas, FieldAdded)
UpdatedFields(rd) == fieldsOfKind(rd.FieldDeltas, FieldUpdated)
DeletedFields(rd) == fieldsOfKind(rd.FieldDeltas, FieldDeleted)

\* a nil *FieldDelta
NilFieldDelta == [nil |-> TRUE]

\* RecordDelta.GetFieldDelta: the first field delta of the column
RECURSIVE firstOfColumn(_, _)
firstOfColumn(fieldDeltas, columnID) ==
    IF fieldDeltas = <<>>
    THEN NilFieldDelta
    ELSE IF Head(fieldDeltas).ColumnID = columnID
    THEN Head(fieldDeltas)
    ELSE firstOfColumn(Tail(fieldDeltas), columnID)

GetFieldDelta(rd, columnID) == firstOfColumn(rd.FieldDeltas, columnID)

\* RecordSetDelta.HasChanges
RecordSetDeltaHasChanges(rsd) ==
    \E k \in 1..Len(rsd.RecordDeltas) : RecordDeltaHasChanges(rsd.RecordDeltas[k])

\* `for _, rd := range deltas { if rd.ChangeType == changeType { result =
\* append(result, rd) } }`
RECURSIVE recordsOfKind(_, _)
recordsOfKind(deltas, changeType) ==
    IF deltas = <<>>
    THEN <<>>
    ELSE IF Head(deltas).ChangeType = changeType
    THEN <<Head(deltas)>> \o recordsOfKind(Tail(deltas), changeType)
    ELSE recordsOfKind(Tail(deltas), changeType)

AddedRecords(rsd) == recordsOfKind(rsd.RecordDeltas, RecordAdded)
ModifiedRecords(rsd) == recordsOfKind(rsd.RecordDeltas, RecordModified)
DeletedRecords(rsd) == recordsOfKind(rsd.RecordDeltas, RecordDeleted)
UnchangedRecords(rsd) == recordsOfKind(rsd.RecordDeltas, RecordUnchanged)

DeltaSummary(added, modified, deleted, unchanged, total) ==
    [Added |-> added, Modified |-> modified, Deleted |-> deleted,
     Unchanged |-> unchanged, Total |-> total]

\* the loop of Summary: one counter incremented per record delta
RECURSIVE summaryLoop(_, _)
summaryLoop(deltas, summary) ==
    IF deltas = <<>>
    THEN summary
    ELSE summaryLoop(Tail(deltas),
            CASE Head(deltas).ChangeType = RecordAdded ->
                    [summary EXCEPT !.Added = @ + 1]
              [] Head(deltas).ChangeType = RecordModified ->
                    [summary EXCEPT !.Modified = @ + 1]
              [] Head(deltas).ChangeType = RecordDeleted ->
                    [summary EXCEPT !.Deleted = @ + 1]
              [] Head(deltas).ChangeType = RecordUnchanged ->
                    [summary EXCEPT !.Unchanged = @ + 1]
              [] OTHER -> summary)

\* Summary whose Total is the number of the changes only
SummaryTotalOfChanges(rsd) ==
    LET summary == summaryLoop(rsd.RecordDeltas,
                               DeltaSummary(0, 0, 0, 0, 0))
    IN  [summary EXCEPT !.Total = summary.Added + summary.Modified
                                     + summary.Deleted]

\* RecordSetDelta.Summary
Summary(rsd) ==
    summaryLoop(rsd.RecordDeltas,
                DeltaSummary(0, 0, 0, 0, Len(rsd.RecordDeltas)))

\* a nil *RecordDelta
NilRecordDelta == [nil |-> TRUE]

\* RecordSetDelta.Get: the first record delta whose Index is i
RECURSIVE firstWithIndex(_, _)
firstWithIndex(deltas, i) ==
    IF deltas = <<>>
    THEN NilRecordDelta
    ELSE IF Head(deltas).Index = i
    THEN Head(deltas)
    ELSE firstWithIndex(Tail(deltas), i)

\* RecordSetDelta.Get that returns the record delta at the position i + 1
RecordSetDeltaGetNext(rsd, i) == firstWithIndex(rsd.RecordDeltas, i + 1)

RecordSetDeltaGet(rsd, i) == firstWithIndex(rsd.RecordDeltas, i)

\* RecordSet.Count
Count(rs) == Len(rs.Records)

(***************************************************************************)
(* domain/sync/convert.go: a RecordSetDelta as a RecordSet.                *)
(***************************************************************************)
\* RecordChangeType.String with the name FieldChangeType.String gives the
\* kind of the same number ("updated" for Modified)
RecordChangeTypeStringOfField(t) ==
    CASE t = RecordUnchanged -> "unchanged"
      [] t = RecordAdded -> "added"
      [] t = RecordModified -> "updated"
      [] t = RecordDeleted -> "deleted"
      [] OTHER -> "unknown"

\* RecordChangeType.String
RecordChangeTypeString(t) ==
    CASE t = RecordUnchanged -> "unchanged"
      [] t = RecordAdded -> "added"
      [] t = RecordModified -> "modified"
      [] t = RecordDeleted -> "deleted"
      [] OTHER -> "unknown"

SchemaColumnSingle(id, type) == [ID |-> id, SchemaType |-> type]

\* createDeltaSchema without the fallback: old and new always get a custom
\* type made of the delta's schema, a nil one included
createDeltaSchemaNoFallback(rsd) ==
    LET refSchema == CustomType(rsd.Schema.ID, rsd.Schema)
    IN  [ptr |-> "delta", ID |-> "Delta",
         Columns |-> <<SchemaColumnSingle("index", NativeTypeInt),
                       SchemaColumnSingle("change_type", NativeTypeString),
                       SchemaColumnSingle("old", refSchema),
                       SchemaColumnSingle("new", refSchema)>>]

\* the schema of the delta records: a new DataSchema with its four columns
createDeltaSchema(rsd) ==
    LET refSchema == IF rsd.Schema # NilSchema
                     THEN CustomType(rsd.Schema.ID, rsd.Schema)
                     ELSE NativeTypeString
    IN  [ptr |-> "delta", ID |-> "Delta",
         Columns |-> <<SchemaColumnSingle("index", NativeTypeInt),
                       SchemaColumnSingle("change_type", NativeTypeString),
                       SchemaColumnSingle("old", refSchema),
                       SchemaColumnSingle("new", refSchema)>>]

\* the record ToRecordSet makes of the record delta rd
deltaRecord(deltaSchema, rd) ==
    LET r0 == NewRecord(deltaSchema)
        r1 == Set(r0, "index", IntValue(rd.Index))
        r2 == Set(r1, "change_type",
                  StringValue(RecordChangeTypeString(rd.ChangeType)))
        r3 == Set(r2, "old", RecordValue(rd.OldRecord))
    IN  Set(r3, "new", RecordValue(rd.NewRecord))

\* `for _, rd := range rsd.RecordDeltas { ...; result.Add(record) }`
RECURSIVE toRecordSetLoop(_, _, _)
toRecordSetLoop(deltas, deltaSchema, result) ==
    IF deltas = <<>>
    THEN result
    ELSE toRecordSetLoop(Tail(deltas), deltaSchema,
                         Add(result, deltaRecord(deltaSchema, Head(deltas))))

ToRecordSet(rsd) ==
    LET deltaSchema == createDeltaSchema(rsd)
    IN  toRecordSetLoop(rsd.RecordDeltas, deltaSchema, NewRecordSet(deltaSchema))

\* CompareRecordSets that stops at the end of the shorter set
CompareRecordSetsCommonPositions(old, new, opts) ==
    LET schema == IF new # NilSet /\ new.Schema # NilSchema THEN new.Schema
                  ELSE IF old # NilSet /\ old.Schema # NilSchema THEN old.Schema
                  ELSE NilSchema
        oldLen == IF old # NilSet THEN Len(old.Records) ELSE 0
        newLen == IF new # NilSet THEN Len(new.Records) ELSE 0
        minLen == IF newLen < oldLen THEN newLen ELSE oldLen
    IN  {IF r.panic THEN PanicResult ELSE RecordSetDelta(schema, r.deltas) :
            r \in appendInOrder([i \in 1..minLen |->
                     CompareRecords(old.Records[i], new.Records[i], i - 1, opts)])}

CompareRecordSets(old, new, opts) ==
    LET schema == IF new # NilSet /\ new.Schema # NilSchema THEN new.Schema
                  ELSE IF old # NilSet /\ old.Schema # NilSchema THEN old.Schema
                  ELSE NilSchema
        oldLen == IF old # NilSet THEN Len(old.Records) ELSE 0
        newLen == IF new # NilSet THEN Len(new.Records) ELSE 0
        maxLen == IF newLen > oldLen THEN newLen ELSE oldLen
        \* i counts from 1 here, the record delta has the Go index i - 1
        oldAt(i) == IF old # NilSet /\ i <= oldLen THEN old.Records[i]
                                                   ELSE NilRecord
        newAt(i) == IF new # NilSet /\ i <= newLen THEN new.Records[i]
                                                   ELSE NilRecord
    IN  {IF r.panic THEN PanicResult ELSE RecordSetDelta(schema, r.deltas) :
            r \in appendInOrder([i \in 1..maxLen |->
                     CompareRecords(oldAt(i), newAt(i), i - 1, opts)])}


(***************************************************************************)
(* The inputs of the calls.  Records are assembled with Record.Set from    *)
(* these values; the nested records and arrays are those of the tests      *)
(* (a store with a stock of products), with the null, nil and unknown      *)
(* shapes added.                                                           *)
(***************************************************************************)
\* products: nested records with the key column "k" and the column "v"
Product(values) == RecordValue(Record(ProductSchema, values))
OnlyK(k) == [c \in {"k"} |-> k]
OnlyV(v) == [c \in {"v"} |-> v]
KV(k, v) == [c \in {"k", "v"} |-> IF c = "k" THEN k ELSE v]

NullString == NullValue(NativeTypeString)
ProductA == Product(OnlyK(StringValue("A")))
ProductB == Product(OnlyK(StringValue("B")))

\* what the column "name" is set to
NameValues ==
    {StringValue("A"), StringValue("B"), IntValue(1), FloatValue(1),
     NullString, customValue, NilValue}

\* what the column "stock" is set to
StockValues ==
    {RecordValue(NilRecord),
     ProductA, ProductB,
     Product(KV(StringValue("A"), NullString)),
     Product(KV(StringValue("A"), NilValue)),
     Product(KV(StringValue("B"), IntValue(1))),
     Product(OnlyV(Product(OnlyV(NullString)))),
     RecordValue(Record(Product2Schema, OnlyK(StringValue("A")))),
     RecordValue(Record(NilSchema, OnlyK(StringValue("A")))),
     DateValue(1, "UTC"), DateValue(1, "Paris"), BoolValue(TRUE),
     ArrayValue(NativeTypeString, <<>>),
     ArrayValue(NativeTypeInt, <<>>),
     ArrayValue(NativeTypeString, <<StringValue("A"), StringValue("B")>>),
     ArrayValue(NativeTypeString, <<StringValue("B"), StringValue("A")>>),
     ArrayValue(NativeTypeString, <<NullString>>),
     ArrayValue(NativeTypeString, <<NilValue>>),
     ArrayValue(CustomType("Product", ProductSchema), <<ProductA, ProductB>>),
     ArrayValue(CustomType("Product", ProductSchema), <<ProductB, ProductA>>),
     ArrayValue(CustomType("Product", ProductSchema),
                <<Product(KV(StringValue("A"), NullString))>>)}

Columns == {"name", "stock"}
ColumnValues(c) == IF c = "name" THEN NameValues ELSE StockValues

\* the opts of a call: none, or the stock matched by the column "k"
OptionLists == {<<>>, <<<<"stock", "k">>>>}

NoResult == [none |-> TRUE]
NoCall == [name |-> "none"]

(***************************************************************************)
(* The calls on records.                                                   *)
(***************************************************************************)
Init ==
    /\ pc = "build"
    /\ oldRecord \in {NilRecord, NewRecord(StoreSchema)}
    /\ newRecord \in {NilRecord, NewRecord(StoreSchema)}
    /\ index = 0
    /\ options = <<>>
    /\ delta = NoResult
    /\ equal = "none"
    /\ oldSet = NilSet
    /\ newSet = NilSet
    /\ setDelta = NoResult
    /\ call = NoCall
    /\ returned = NoResult

\* oldRecord.Set(c, v)
SetOld ==
    /\ pc = "build"
    /\ oldRecord # NilRecord
    /\ \E c \in Columns : \E v \in ColumnValues(c) :
          oldRecord' = Set(oldRecord, c, v)
    /\ UNCHANGED <<pc, newRecord, index, options, delta, equal,
                   oldSet, newSet, setDelta, call, returned>>

\* newRecord.Set(c, v)
SetNew ==
    /\ pc = "build"
    /\ newRecord # NilRecord
    /\ \E c \in Columns : \E v \in ColumnValues(c) :
          newRecord' = Set(newRecord, c, v)
    /\ UNCHANGED <<pc, oldRecord, index, options, delta, equal,
                   oldSet, newSet, setDelta, call, returned>>

\* delta := CompareRecords(oldRecord, newRecord, i, opts...)
DoCompareRecords ==
    /\ pc = "build"
    /\ \E i \in 0..MaxIndex : \E opts \in OptionLists :
          /\ index' = i
          /\ options' = opts
          /\ delta' \in CompareRecords(oldRecord, newRecord, i, opts)
    /\ pc' = "compared"
    /\ UNCHANGED <<oldRecord, newRecord, equal, oldSet, newSet, setDelta, call, returned>>

\* equal := RecordsEqual(oldRecord, newRecord)
DoRecordsEqual ==
    /\ pc = "build"
    /\ equal' \in RecordsEqual(oldRecord, newRecord)
    /\ pc' = "equal"
    /\ UNCHANGED <<oldRecord, newRecord, index, options, delta,
                   oldSet, newSet, setDelta, call, returned>>

Next == SetOld \/ SetNew \/ DoCompareRecords \/ DoRecordsEqual

Spec == Init /\ [][Next]_vars

(***************************************************************************)
(* The calls on record sets.                                               *)
(***************************************************************************)
StoreRecord(values) == Record(StoreSchema, values)

\* the records added to the sets
SetRecords ==
    {NilRecord,
     StoreRecord([c \in {"name"} |-> StringValue("A")]),
     StoreRecord([c \in {"name"} |-> StringValue("B")]),
     StoreRecord([c \in {"stock"} |->
        Product(KV(StringValue("A"), NullString))])}

InitSets ==
    /\ pc = "build"
    /\ oldRecord = NilRecord
    /\ newRecord = NilRecord
    /\ index = 0
    /\ options = <<>>
    /\ delta = NoResult
    /\ equal = "none"
    /\ oldSet \in {NilSet, NewRecordSet(StoreSchema)}
    /\ newSet \in {NilSet, NewRecordSet(StoreSchema), NewRecordSet(NilSchema)}
    /\ setDelta = NoResult
    /\ call = NoCall
    /\ returned = NoResult

\* oldSet.Add(r)
AddOld ==
    /\ pc = "build"
    /\ oldSet # NilSet
    /\ Len(oldSet.Records) < MaxRecords
    /\ \E r \in SetRecords : oldSet' = Add(oldSet, r)
    /\ UNCHANGED <<pc, oldRecord, newRecord, index, options, delta, equal,
                   newSet, setDelta, call, returned>>

\* newSet.Add(r)
AddNew ==
    /\ pc = "build"
    /\ newSet # NilSet
    /\ Len(newSet.Records) < MaxRecords
    /\ \E r \in SetRecords : newSet' = Add(newSet, r)
    /\ UNCHANGED <<pc, oldRecord, newRecord, index, options, delta, equal,
                   oldSet, setDelta, call, returned>>

\* setDelta := CompareRecordSets(oldSet, newSet, opts...)
DoCompareRecordSets ==
    /\ pc = "build"
    /\ \E opts \in OptionLists :
          /\ options' = opts
          /\ setDelta' \in CompareRecordSets(oldSet, newSet, opts)
    /\ pc' = "setCompared"
    /\ UNCHANGED <<oldRecord, newRecord, index, delta, equal, oldSet, newSet, call, returned>>

\* the queries are made on a delta that CompareRecordSets returned
HasSetDelta == pc = "setCompared" /\ setDelta # PanicResult

\* returned := setDelta.Summary()
DoSummary ==
    /\ HasSetDelta
    /\ call' = [name |-> "Summary"]
    /\ returned' = Summary(setDelta)
    /\ pc' = "setQueried"
    /\ UNCHANGED <<oldRecord, newRecord, index, options, delta, equal,
                   oldSet, newSet, setDelta>>

\* returned := setDelta.AddedRecords(), ModifiedRecords(), DeletedRecords()
\* or UnchangedRecords()
DoRecordsOfKind ==
    /\ HasSetDelta
    /\ \E view \in {"AddedRecords", "ModifiedRecords", "DeletedRecords",
                     "UnchangedRecords"} :
          /\ call' = [name |-> view]
          /\ returned' = CASE view = "AddedRecords" -> AddedRecords(setDelta)
                           [] view = "ModifiedRecords" -> ModifiedRecords(setDelta)
                           [] view = "DeletedRecords" -> DeletedRecords(setDelta)
                           [] view = "UnchangedRecords" -> UnchangedRecords(setDelta)
    /\ pc' = "setQueried"
    /\ UNCHANGED <<oldRecord, newRecord, index, options, delta, equal,
                   oldSet, newSet, setDelta>>

\* returned := setDelta.Get(i)
DoGet ==
    /\ HasSetDelta
    /\ \E i \in -1..MaxRecords :
          /\ call' = [name |-> "Get", index |-> i]
          /\ returned' = RecordSetDeltaGet(setDelta, i)
    /\ pc' = "setQueried"
    /\ UNCHANGED <<oldRecord, newRecord, index, options, delta, equal,
                   oldSet, newSet, setDelta>>

\* returned := setDelta.ToRecordSet()
DoToRecordSet ==
    /\ HasSetDelta
    /\ call' = [name |-> "ToRecordSet"]
    /\ returned' = ToRecordSet(setDelta)
    /\ pc' = "setQueried"
    /\ UNCHANGED <<oldRecord, newRecord, index, options, delta, equal,
                   oldSet, newSet, setDelta>>

NextSets ==
    \/ AddOld
    \/ AddNew
    \/ DoCompareRecordSets
    \/ DoSummary
    \/ DoRecordsOfKind
    \/ DoGet
    \/ DoToRecordSet

SpecSets == InitSets /\ [][NextSets]_vars

(***************************************************************************)
(* The calls on records whose "stock" is an array of products, assembled   *)
(* element by element.                                                     *)
(***************************************************************************)
MaxElements == 2     \* an array holds at most MaxElements elements

ProductType == CustomType("Product", ProductSchema)

\* the elements appended to the arrays
ArrayElements ==
    {Product(KV(StringValue("A"), IntValue(1))),      \* key "A"
     Product(KV(StringValue("A"), NullString)),       \* key "A", a Null inside
     Product(OnlyK(IntValue(1))),                     \* key 1
     Product(OnlyK(StringValue("1"))),                \* key "1"
     Product(OnlyV(IntValue(1))),                     \* no key column
     Product(KV(NullString, IntValue(1))),            \* the key is a Null
     RecordValue(NilRecord),                          \* no record
     StringValue("A")}                                \* a scalar

\* the opts of a call: none, the stock matched by the column "k", or a key
\* for another path
ArrayOptionLists == {<<>>, <<<<"stock", "k">>>>, <<<<"items", "k">>>>}

StockRecord(elements) ==
    Set(NewRecord(StoreSchema), "stock", ArrayValue(ProductType, elements))

InitArrays ==
    /\ pc = "build"
    /\ oldRecord = StockRecord(<<>>)
    /\ newRecord = StockRecord(<<>>)
    /\ index = 0
    /\ options = <<>>
    /\ delta = NoResult
    /\ equal = "none"
    /\ oldSet = NilSet
    /\ newSet = NilSet
    /\ setDelta = NoResult
    /\ call = NoCall
    /\ returned = NoResult

\* oldRecord.Set("stock", ArrayValue{Elements: append(elements, e)})
AppendOld ==
    /\ pc = "build"
    /\ Len(oldRecord.Values["stock"].Elements) < MaxElements
    /\ \E e \in ArrayElements :
          oldRecord' = StockRecord(Append(oldRecord.Values["stock"].Elements, e))
    /\ UNCHANGED <<pc, newRecord, index, options, delta, equal,
                   oldSet, newSet, setDelta, call, returned>>

\* newRecord.Set("stock", ArrayValue{Elements: append(elements, e)})
AppendNew ==
    /\ pc = "build"
    /\ Len(newRecord.Values["stock"].Elements) < MaxElements
    /\ \E e \in ArrayElements :
          newRecord' = StockRecord(Append(newRecord.Values["stock"].Elements, e))
    /\ UNCHANGED <<pc, oldRecord, index, options, delta, equal,
                   oldSet, newSet, setDelta, call, returned>>

\* delta := CompareRecords(oldRecord, newRecord, 0, opts...)
DoCompareArrays ==
    /\ pc = "build"
    /\ \E opts \in ArrayOptionLists :
          /\ options' = opts
          /\ delta' \in CompareRecords(oldRecord, newRecord, 0, opts)
    /\ pc' = "compared"
    /\ UNCHANGED <<oldRecord, newRecord, index, equal, oldSet, newSet, setDelta, call, returned>>

NextArrays == AppendOld \/ AppendNew \/ DoCompareArrays

SpecArrays == InitArrays /\ [][NextArrays]_vars

(***************************************************************************)
(* The calls on compare options: the options are given one WithArrayKey at *)
(* a time, then GetArrayKey is asked for a path.                           *)
(***************************************************************************)
MaxOptions == 3      \* a call is given at most MaxOptions options

OptionPaths == {"stock", "items"}
OptionKeys == {"k", "v", ""}
\* the paths GetArrayKey is asked for
QueryPaths == {"stock", "items", "unknown"}
\* the receivers of GetArrayKey: the options made by NewCompareOptions, a
\* nil *CompareOptions, a CompareOptions with a nil map
Receivers == {"options", "nil", "nilKeys"}

InitOptions ==
    /\ pc = "build"
    /\ oldRecord = NilRecord
    /\ newRecord = NilRecord
    /\ index = 0
    /\ options = <<>>
    /\ delta = NoResult
    /\ equal = "none"
    /\ oldSet = NilSet
    /\ newSet = NilSet
    /\ setDelta = NoResult
    /\ call = NoCall
    /\ returned = NoResult

\* one more WithArrayKey(p, k) in the opts of NewCompareOptions
AddOption ==
    /\ pc = "build"
    /\ Len(options) < MaxOptions
    /\ \E p \in OptionPaths : \E k \in OptionKeys :
          options' = Append(options, <<p, k>>)
    /\ UNCHANGED <<pc, oldRecord, newRecord, index, delta, equal,
                   oldSet, newSet, setDelta, call, returned>>

\* returned := o.GetArrayKey(path)
DoGetArrayKey ==
    /\ pc = "build"
    /\ \E r \in Receivers : \E path \in QueryPaths :
          LET o == CASE r = "options" -> NewCompareOptions(options)
                     [] r = "nil" -> NilOptions
                     [] r = "nilKeys" -> NilKeysOptions
          IN  /\ call' = [name |-> "GetArrayKey", receiver |-> r, path |-> path]
              /\ returned' = GetArrayKey(o, path)
    /\ pc' = "queried"
    /\ UNCHANGED <<oldRecord, newRecord, index, options, delta, equal,
                   oldSet, newSet, setDelta>>

NextOptions == AddOption \/ DoGetArrayKey

SpecOptions == InitOptions /\ [][NextOptions]_vars

(***************************************************************************)
(* The queries on a RecordDelta: two records with up to three scalar       *)
(* fields are compared, then the delta is asked.                           *)
(***************************************************************************)
FieldColumns == {"name", "city", "note"}
\* what a field is set to
FieldValues == {StringValue("A"), StringValue("B"), NullString}
\* the column ids GetFieldDelta is asked for
QueryColumns == FieldColumns \cup {"unknown"}

InitFields ==
    /\ pc = "build"
    /\ oldRecord \in {NilRecord, NewRecord(StoreSchema)}
    /\ newRecord \in {NilRecord, NewRecord(StoreSchema)}
    /\ index = 0
    /\ options = <<>>
    /\ delta = NoResult
    /\ equal = "none"
    /\ oldSet = NilSet
    /\ newSet = NilSet
    /\ setDelta = NoResult
    /\ call = NoCall
    /\ returned = NoResult

\* oldRecord.Set(c, v)
SetOldField ==
    /\ pc = "build"
    /\ oldRecord # NilRecord
    /\ \E c \in FieldColumns : \E v \in FieldValues :
          oldRecord' = Set(oldRecord, c, v)
    /\ UNCHANGED <<pc, newRecord, index, options, delta, equal,
                   oldSet, newSet, setDelta, call, returned>>

\* newRecord.Set(c, v)
SetNewField ==
    /\ pc = "build"
    /\ newRecord # NilRecord
    /\ \E c \in FieldColumns : \E v \in FieldValues :
          newRecord' = Set(newRecord, c, v)
    /\ UNCHANGED <<pc, oldRecord, index, options, delta, equal,
                   oldSet, newSet, setDelta, call, returned>>

\* delta := CompareRecords(oldRecord, newRecord, 0)
DoCompareFields ==
    /\ pc = "build"
    /\ delta' \in CompareRecords(oldRecord, newRecord, 0, <<>>)
    /\ pc' = "compared"
    /\ UNCHANGED <<oldRecord, newRecord, index, options, equal,
                   oldSet, newSet, setDelta, call, returned>>

\* the queries are made on a delta that CompareRecords returned
HasDelta == pc = "compared" /\ delta # PanicResult

\* returned := delta.HasChanges()
DoHasChanges ==
    /\ HasDelta
    /\ call' = [name |-> "HasChanges"]
    /\ returned' = RecordDeltaHasChanges(delta)
    /\ pc' = "queried"
    /\ UNCHANGED <<oldRecord, newRecord, index, options, delta, equal,
                   oldSet, newSet, setDelta>>

\* returned := delta.ChangedFields(), AddedFields(), UpdatedFields() or
\* DeletedFields()
DoFieldsOfKind ==
    /\ HasDelta
    /\ \E list \in {"ChangedFields", "AddedFields", "UpdatedFields",
                     "DeletedFields"} :
          /\ call' = [name |-> list]
          /\ returned' = CASE list = "ChangedFields" -> ChangedFields(delta)
                           [] list = "AddedFields" -> AddedFields(delta)
                           [] list = "UpdatedFields" -> UpdatedFields(delta)
                           [] list = "DeletedFields" -> DeletedFields(delta)
    /\ pc' = "queried"
    /\ UNCHANGED <<oldRecord, newRecord, index, options, delta, equal,
                   oldSet, newSet, setDelta>>

\* returned := delta.GetFieldDelta(c)
DoGetFieldDelta ==
    /\ HasDelta
    /\ \E c \in QueryColumns :
          /\ call' = [name |-> "GetFieldDelta", columnID |-> c]
          /\ returned' = GetFieldDelta(delta, c)
    /\ pc' = "queried"
    /\ UNCHANGED <<oldRecord, newRecord, index, options, delta, equal,
                   oldSet, newSet, setDelta>>

NextFields ==
    \/ SetOldField
    \/ SetNewField
    \/ DoCompareFields
    \/ DoHasChanges
    \/ DoFieldsOfKind
    \/ DoGetFieldDelta

SpecFields == InitFields /\ [][NextFields]_vars

(***************************************************************************)
(***************************************************************************)
(* The comparison of record objects.  A *Record is a pointer: two records  *)
(* with the same schema and the same values are still two objects, and the *)
(* field ptr names the object.  The records of this specification are      *)
(* objects, nested ones included, so that a delta that referred to a copy  *)
(* of its input would differ from one that refers to the input.            *)
(***************************************************************************)
RecordObject(ptr, schema, values) ==
    [Schema |-> schema, Values |-> values, ptr |-> ptr]

\* r1 and r2 have the same content; r3 holds a nested record object and an
\* array of one
RecordObjects ==
    {RecordObject("r1", StoreSchema, [c \in {"name"} |-> StringValue("A")]),
     RecordObject("r2", StoreSchema, [c \in {"name"} |-> StringValue("A")]),
     RecordObject("r3", StoreSchema,
        [c \in {"name", "stock"} |->
            IF c = "name"
            THEN RecordValue(RecordObject("p1", ProductSchema,
                                          OnlyK(StringValue("A"))))
            ELSE ArrayValue(CustomType("Product", ProductSchema),
                    <<RecordValue(RecordObject("p2", ProductSchema,
                                               OnlyK(StringValue("A"))))>>)])}

InitFrame ==
    /\ pc = "build"
    /\ oldRecord \in RecordObjects \cup {NilRecord}
    /\ newRecord \in RecordObjects \cup {NilRecord}
    /\ index = 0
    /\ options = <<>>
    /\ delta = NoResult
    /\ equal = "none"
    /\ oldSet \in {NilSet, NewRecordSet(StoreSchema)}
    /\ newSet \in {NilSet, NewRecordSet(StoreSchema)}
    /\ setDelta = NoResult
    /\ call = NoCall
    /\ returned = NoResult

\* oldSet.Add(r), r one of the objects
AddOldObject ==
    /\ pc = "build"
    /\ oldSet # NilSet
    /\ Len(oldSet.Records) < MaxRecords
    /\ \E r \in RecordObjects : oldSet' = Add(oldSet, r)
    /\ UNCHANGED <<pc, oldRecord, newRecord, index, options, delta, equal,
                   newSet, setDelta, call, returned>>

\* newSet.Add(r), r one of the objects
AddNewObject ==
    /\ pc = "build"
    /\ newSet # NilSet
    /\ Len(newSet.Records) < MaxRecords
    /\ \E r \in RecordObjects : newSet' = Add(newSet, r)
    /\ UNCHANGED <<pc, oldRecord, newRecord, index, options, delta, equal,
                   oldSet, setDelta, call, returned>>

NextFrame ==
    \/ AddOldObject
    \/ AddNewObject
    \/ DoCompareRecords
    \/ DoRecordsEqual
    \/ DoCompareRecordSets

SpecFrame == InitFrame /\ [][NextFrame]_vars

(***************************************************************************)
(* The functional primitives of RecordSet.  A callback is named and        *)
(* applied by predicate / transform / reducer below; the callbacks are the *)
(* closures of the tests: they read the record they are given.             *)
(***************************************************************************)
MaxLen == 3          \* the receiver holds at most MaxLen records

Predicates == {"isA", "notA", "always"}
predicate(p, r) ==
    CASE p = "isA" -> Get(r, "name") = StringValue("A")
      [] p = "notA" -> Get(r, "name") # StringValue("A")
      [] p = "always" -> TRUE

\* "same" returns its argument, "rename" a new record, "nil" no record
Transforms == {"same", "rename", "nil"}
transform(t, r) ==
    CASE t = "same" -> r
      [] t = "rename" -> Set(NewRecord(r.Schema), "name", StringValue("C"))
      [] t = "nil" -> NilRecord

\* "count" counts the records, "names" appends the name of each record
Reducers == {"count", "names"}
reducer(f, accumulator, record) ==
    CASE f = "count" -> accumulator + 1
      [] f = "names" -> Append(accumulator, Get(record, "name"))
InitialOf(f) == IF f = "count" THEN 0 ELSE <<>>

\* `for _, r := range rs.Records { if predicate(r) { result.Add(r) } }`
RECURSIVE filterLoop(_, _, _)
filterLoop(records, p, result) ==
    IF records = <<>>
    THEN result
    ELSE filterLoop(Tail(records), p,
                    IF predicate(p, Head(records))
                    THEN Add(result, Head(records))
                    ELSE result)

\* Filter that returns the matching records last to first
FilterReversed(rs, p) ==
    LET result == filterLoop(rs.Records, p, NewRecordSet(rs.Schema))
    IN  RecordSet(result.Schema,
                  [k \in 1..Len(result.Records) |->
                      result.Records[Len(result.Records) + 1 - k]])

Filter(rs, p) == filterLoop(rs.Records, p, NewRecordSet(rs.Schema))

\* `for _, r := range rs.Records { result.Add(transform(r)) }`
RECURSIVE mapLoop(_, _, _)
mapLoop(records, t, result) ==
    IF records = <<>>
    THEN result
    ELSE mapLoop(Tail(records), t, Add(result, transform(t, Head(records))))

Map(rs, t) == mapLoop(rs.Records, t, NewRecordSet(rs.Schema))

\* `for _, r := range rs.Records { fn(r) }`, fn appending r to the slice
\* it captured: the result is that slice after the call
RECURSIVE forEachLoop(_, _)
forEachLoop(records, captured) ==
    IF records = <<>>
    THEN captured
    ELSE forEachLoop(Tail(records), Append(captured, Head(records)))

ForEach(rs) == forEachLoop(rs.Records, <<>>)

\* `for _, r := range rs.Records { if predicate(r) { return true } }`
RECURSIVE anyLoop(_, _)
anyLoop(records, p) ==
    IF records = <<>>
    THEN FALSE
    ELSE IF predicate(p, Head(records)) THEN TRUE
    ELSE anyLoop(Tail(records), p)

RecordSetAny(rs, p) == anyLoop(rs.Records, p)

\* `for _, r := range rs.Records { if !predicate(r) { return false } }`
RECURSIVE allLoop(_, _)
allLoop(records, p) ==
    IF records = <<>>
    THEN TRUE
    ELSE IF ~predicate(p, Head(records)) THEN FALSE
    ELSE allLoop(Tail(records), p)

RecordSetAll(rs, p) == allLoop(rs.Records, p)

\* `for i := 0; i < n && i < len(rs.Records); i++ { result.Add(rs.Records[i]) }`
\* with the Go position i: rs.Records[i] is the element i + 1 here
RECURSIVE takeLoop(_, _, _, _)
takeLoop(rs, n, i, result) ==
    IF i < n /\ i < Len(rs.Records)
    THEN takeLoop(rs, n, i + 1, Add(result, rs.Records[i + 1]))
    ELSE result

Take(rs, n) == takeLoop(rs, n, 0, NewRecordSet(rs.Schema))

\* `for i := n; i < len(rs.Records); i++ { result.Add(rs.Records[i]) }`:
\* rs.Records[i] with a negative i is an index out of range, a panic
RECURSIVE skipLoop(_, _, _)
skipLoop(rs, i, result) ==
    IF i < Len(rs.Records)
    THEN IF i < 0
         THEN PanicResult
         ELSE skipLoop(rs, i + 1, Add(result, rs.Records[i + 1]))
    ELSE result

Skip(rs, n) == skipLoop(rs, n, NewRecordSet(rs.Schema))

\* `for _, r := range rs.Records { result = reducer(result, r) }`
RECURSIVE reduceLoop(_, _, _)
reduceLoop(records, f, result) ==
    IF records = <<>>
    THEN result
    ELSE reduceLoop(Tail(records), f, reducer(f, result, Head(records)))

Reduce(rs, initial, f) == reduceLoop(rs.Records, f, initial)

\* the records of the receiver
NamedRecord(name) == StoreRecord([c \in {"name"} |-> StringValue(name)])
ReceiverRecords == {NamedRecord("A"), NamedRecord("B"), NamedRecord("D")}

\* the arguments of Take and Skip
Counts == -1..(MaxLen + 1)

InitPrimitives ==
    /\ pc = "build"
    /\ oldRecord = NilRecord
    /\ newRecord = NilRecord
    /\ index = 0
    /\ options = <<>>
    /\ delta = NoResult
    /\ equal = "none"
    /\ oldSet \in {NewRecordSet(StoreSchema), NewRecordSet(NilSchema)}
    /\ newSet = NilSet
    /\ setDelta = NoResult
    /\ call = NoCall
    /\ returned = NoResult

Untouched == <<oldRecord, newRecord, index, options, delta, equal, newSet, setDelta>>

\* oldSet.Add(r)
DoAdd ==
    /\ Len(oldSet.Records) < MaxLen
    /\ \E r \in ReceiverRecords : oldSet' = Add(oldSet, r)
    /\ call' = [name |-> "Add"]
    /\ returned' = NoResult
    /\ pc' = "build"
    /\ UNCHANGED Untouched

\* returned := oldSet.Filter(predicate)
DoFilter ==
    /\ \E p \in Predicates :
          /\ call' = [name |-> "Filter", callback |-> p]
          /\ returned' = Filter(oldSet, p)
    /\ pc' = "called"
    /\ UNCHANGED <<oldSet, Untouched>>

\* returned := oldSet.Map(transform)
DoMap ==
    /\ \E t \in Transforms :
          /\ call' = [name |-> "Map", callback |-> t]
          /\ returned' = Map(oldSet, t)
    /\ pc' = "called"
    /\ UNCHANGED <<oldSet, Untouched>>

\* oldSet.ForEach(fn); returned is what fn collected
DoForEach ==
    /\ call' = [name |-> "ForEach"]
    /\ returned' = ForEach(oldSet)
    /\ pc' = "called"
    /\ UNCHANGED <<oldSet, Untouched>>

\* returned := oldSet.Any(predicate)
DoAny ==
    /\ \E p \in Predicates :
          /\ call' = [name |-> "Any", callback |-> p]
          /\ returned' = RecordSetAny(oldSet, p)
    /\ pc' = "called"
    /\ UNCHANGED <<oldSet, Untouched>>

\* returned := oldSet.All(predicate)
DoAll ==
    /\ \E p \in Predicates :
          /\ call' = [name |-> "All", callback |-> p]
          /\ returned' = RecordSetAll(oldSet, p)
    /\ pc' = "called"
    /\ UNCHANGED <<oldSet, Untouched>>

\* returned := oldSet.Take(n)
DoTake ==
    /\ \E n \in Counts :
          /\ call' = [name |-> "Take", n |-> n]
          /\ returned' = Take(oldSet, n)
    /\ pc' = "called"
    /\ UNCHANGED <<oldSet, Untouched>>

\* returned := oldSet.Skip(n)
DoSkip ==
    /\ \E n \in Counts :
          /\ call' = [name |-> "Skip", n |-> n]
          /\ returned' = Skip(oldSet, n)
    /\ pc' = "called"
    /\ UNCHANGED <<oldSet, Untouched>>

\* returned := oldSet.Skip(a).Take(b); a panic of Skip ends the call
DoSkipTake ==
    /\ \E a \in Counts : \E b \in Counts :
          /\ call' = [name |-> "SkipTake", a |-> a, b |-> b]
          /\ returned' = IF Skip(oldSet, a) = PanicResult
                         THEN PanicResult
                         ELSE Take(Skip(oldSet, a), b)
    /\ pc' = "called"
    /\ UNCHANGED <<oldSet, Untouched>>

\* returned := oldSet.Reduce(initial, reducer)
DoReduce ==
    /\ \E f \in Reducers :
          /\ call' = [name |-> "Reduce", callback |-> f]
          /\ returned' = Reduce(oldSet, InitialOf(f), f)
    /\ pc' = "called"
    /\ UNCHANGED <<oldSet, Untouched>>

NextPrimitives ==
    \/ DoAdd
    \/ DoFilter
    \/ DoMap
    \/ DoForEach
    \/ DoAny
    \/ DoAll
    \/ DoTake
    \/ DoSkip
    \/ DoSkipTake
    \/ DoReduce

SpecPrimitives == InitPrimitives /\ [][NextPrimitives]_vars

(***************************************************************************)
(* Record.go: the typed accessors.  `v, ok := r.Values[columnID].(T)` is   *)
(* ok iff the column holds the variant T; a missing column gives the nil   *)
(* Value, which is of no variant.  The results are Go values: a string, an *)
(* int64, a float64, a time.Time, a bool, a slice and a *Record.           *)
(***************************************************************************)
Float64(f, nan) == [float |-> f, nan |-> nan]
Time(instant, loc) == [instant |-> instant, loc |-> loc]
\* time.Time{}
ZeroTime == Time(0, "UTC")
\* a nil []Value
NilSlice == [nilSlice |-> TRUE]

\* GetString that gives the text of any value that has one
GetStringOfAny(r, columnID) ==
    valueToString(Get(r, columnID))

GetString(r, columnID) ==
    LET v == Get(r, columnID)
    IN  IF v.tag # "String" THEN "" ELSE v.str

GetInt(r, columnID) ==
    LET v == Get(r, columnID)
    IN  IF v.tag # "Int" THEN 0 ELSE v.int

GetFloat(r, columnID) ==
    LET v == Get(r, columnID)
    IN  IF v.tag # "Float" THEN Float64(0, FALSE) ELSE Float64(v.float, v.nan)

GetDate(r, columnID) ==
    LET v == Get(r, columnID)
    IN  IF v.tag # "Date" THEN ZeroTime ELSE Time(v.instant, v.loc)

GetBool(r, columnID) ==
    LET v == Get(r, columnID)
    IN  IF v.tag # "Bool" THEN FALSE ELSE v.bool

GetArray(r, columnID) ==
    LET v == Get(r, columnID)
    IN  IF v.tag # "Array" THEN NilSlice ELSE v.Elements

GetRecord(r, columnID) ==
    LET v == Get(r, columnID)
    IN  IF v.tag # "Record" THEN NilRecord ELSE v.Record

Accessors ==
    {"GetString", "GetInt", "GetFloat", "GetDate", "GetBool", "GetArray",
     "GetRecord"}
AccessorColumns == {"name", "stock", "missing"}

InitAccessors ==
    /\ pc = "build"
    /\ oldRecord = NewRecord(StoreSchema)
    /\ newRecord = NilRecord
    /\ index = 0
    /\ options = <<>>
    /\ delta = NoResult
    /\ equal = "none"
    /\ oldSet = NilSet
    /\ newSet = NilSet
    /\ setDelta = NoResult
    /\ call = NoCall
    /\ returned = NoResult

\* returned := oldRecord.GetString(c), oldRecord.GetInt(c), ...
DoAccessor ==
    /\ pc = "build"
    /\ \E accessor \in Accessors : \E c \in AccessorColumns :
          /\ call' = [name |-> accessor, columnID |-> c]
          /\ returned' = CASE accessor = "GetString" -> GetString(oldRecord, c)
                           [] accessor = "GetInt" -> GetInt(oldRecord, c)
                           [] accessor = "GetFloat" -> GetFloat(oldRecord, c)
                           [] accessor = "GetDate" -> GetDate(oldRecord, c)
                           [] accessor = "GetBool" -> GetBool(oldRecord, c)
                           [] accessor = "GetArray" -> GetArray(oldRecord, c)
                           [] accessor = "GetRecord" -> GetRecord(oldRecord, c)
    /\ pc' = "accessed"
    /\ UNCHANGED <<oldRecord, newRecord, index, options, delta, equal,
                   oldSet, newSet, setDelta>>

NextAccessors == SetOld \/ DoAccessor

SpecAccessors == InitAccessors /\ [][NextAccessors]_vars

(***************************************************************************)
(* Comparison under keys configured for deeper field paths: the records    *)
(* hold arrays inside a nested record (column store) and inside the        *)
(* elements of a top-level array (column stock).                           *)
(***************************************************************************)
MaxPathOptions == 2  \* a call is given at most MaxPathOptions options

ProductsAB == ArrayValue(CustomType("Product", ProductSchema), <<ProductA, ProductB>>)
ProductsBA == ArrayValue(CustomType("Product", ProductSchema), <<ProductB, ProductA>>)

\* a nested store record whose column stock is the array
StoreOf(array) == RecordValue(StoreRecord([c \in {"stock"} |-> array]))
\* an array of one element with the key "A" whose column v is the array
HoldersOf(array) ==
    ArrayValue(CustomType("Product", ProductSchema),
               <<Product(KV(StringValue("A"), array))>>)

StoreColumnValues == {StoreOf(ProductsAB), StoreOf(ProductsBA)}
StockColumnValues ==
    {HoldersOf(ProductsAB), HoldersOf(ProductsBA), ProductsAB, ProductsBA}

\* the records compared: each of the columns store and stock set or not
PathRecords ==
    {StoreRecord([c \in {"store"} |-> s]) : s \in StoreColumnValues}
    \cup {StoreRecord([c \in {"stock"} |-> a]) : a \in StockColumnValues}
    \cup {StoreRecord([c \in {"store", "stock"} |->
                          IF c = "store" THEN s ELSE a]) :
             s \in StoreColumnValues, a \in StockColumnValues}
    \cup {NewRecord(StoreSchema)}

\* the field paths keys are configured for
KeyPaths == {"stock", "store", "store.stock", "stock.v"}

InitPaths ==
    /\ pc = "build"
    /\ oldRecord \in PathRecords
    /\ newRecord \in PathRecords
    /\ index = 0
    /\ options = <<>>
    /\ delta = NoResult
    /\ equal = "none"
    /\ oldSet = NilSet
    /\ newSet = NilSet
    /\ setDelta = NoResult
    /\ call = NoCall
    /\ returned = NoResult

\* opts = append(opts, WithArrayKey(path, "k"))
AddPathOption ==
    /\ pc = "build"
    /\ Len(options) < MaxPathOptions
    /\ \E path \in KeyPaths : options' = Append(options, <<path, "k">>)
    /\ UNCHANGED <<pc, oldRecord, newRecord, index, delta, equal,
                   oldSet, newSet, setDelta, call, returned>>

\* delta := CompareRecords(oldRecord, newRecord, 0, opts...)
DoComparePaths ==
    /\ pc = "build"
    /\ delta' \in CompareRecords(oldRecord, newRecord, 0, options)
    /\ pc' = "compared"
    /\ UNCHANGED <<oldRecord, newRecord, index, options, equal,
                   oldSet, newSet, setDelta, call, returned>>

NextPaths == AddPathOption \/ DoComparePaths

SpecPaths == InitPaths /\ [][NextPaths]_vars

(* Properties.                                                             *)
(***************************************************************************)
BothPresent == oldRecord # NilRecord /\ newRecord # NilRecord

\* CompareRecords was called on two present records and returned a delta
ComparedPresent == pc = "compared" /\ BothPresent /\ delta # PanicResult

\* the column ids of either value map
UnionColumns == (DOMAIN oldRecord.Values) \cup (DOMAIN newRecord.Values)

FieldKinds == {delta.FieldDeltas[k].ChangeType : k \in 1..Len(delta.FieldDeltas)}

\* C1: with an absent record CompareRecords compares no field: (nil, nil)
\* gives Unchanged, (nil, b) gives Added with NewRecord = b and no OldRecord,
\* (a, nil) gives Deleted with OldRecord = a and no NewRecord; the delta has
\* no field deltas and its Index is the index argument.
C1_AbsentRecords ==
    (pc = "compared" /\ ~BothPresent) =>
        delta = RecordDelta(index,
                            IF oldRecord = NilRecord /\ newRecord = NilRecord
                            THEN RecordUnchanged
                            ELSE IF oldRecord = NilRecord THEN RecordAdded
                                                          ELSE RecordDeleted,
                            oldRecord, newRecord, <<>>)

\* an absent old record against a new record with both columns, at index 1
C1_Witness ==
    /\ pc = "compared"
    /\ oldRecord = NilRecord
    /\ newRecord # NilRecord
    /\ DOMAIN newRecord.Values = Columns
    /\ index = 1
    /\ delta.ChangeType = RecordAdded

\* C4: for two present records, CompareRecords returns exactly one
\* FieldDelta per column id of the old or of the new value map (none
\* missing, none twice, no other), and the kind is Modified iff some field
\* delta is not Unchanged, otherwise Unchanged.  (Stated of the calls that
\* return; the calls that panic are the matter of C7.)
C4_OneFieldDeltaPerColumn ==
    ComparedPresent =>
        /\ Len(delta.FieldDeltas) = Cardinality(UnionColumns)
        /\ {delta.FieldDeltas[k].ColumnID : k \in 1..Len(delta.FieldDeltas)}
              = UnionColumns
        /\ delta.Index = index
        /\ delta.ChangeType =
              IF FieldKinds \subseteq {FieldUnchanged} THEN RecordUnchanged
                                                      ELSE RecordModified

\* the old record has only "name", the new one only "stock"; the second
\* field delta is the only one that is not Unchanged
C4_Witness ==
    /\ ComparedPresent
    /\ DOMAIN oldRecord.Values = {"name"}
    /\ DOMAIN newRecord.Values = {"stock"}
    /\ Len(delta.FieldDeltas) = 2
    /\ delta.FieldDeltas[1].ChangeType = FieldUnchanged
    /\ delta.FieldDeltas[2].ChangeType # FieldUnchanged
    /\ delta.ChangeType = RecordModified

\* a side of a field is null when the column is absent (or holds no Value
\* at all), holds a Null, or holds a nested-record value without record
SideIsNull(r, c) ==
    \/ c \notin DOMAIN r.Values
    \/ r.Values[c] = NilValue
    \/ r.Values[c].tag = "Null"
    \/ (r.Values[c].tag = "Record" /\ r.Values[c].Record = NilRecord)

\* C5: per field: both sides null gives Unchanged; old null and new not
\* gives Added; old not null and new null gives Deleted; both not null
\* gives Unchanged when the values are structurally equal and Updated
\* otherwise.
C5_FieldClassification ==
    ComparedPresent =>
        \A k \in 1..Len(delta.FieldDeltas) :
            LET fd == delta.FieldDeltas[k]
                c == fd.ColumnID
                oldNull == SideIsNull(oldRecord, c)
                newNull == SideIsNull(newRecord, c)
            IN  fd.ChangeType =
                   IF oldNull /\ newNull THEN FieldUnchanged
                   ELSE IF oldNull THEN FieldAdded
                   ELSE IF newNull THEN FieldDeleted
                   ELSE IF "true" \in valuesEqualWithOptions(
                              oldRecord.Values[c], newRecord.Values[c], c,
                              NewCompareOptions(options))
                        THEN FieldUnchanged
                        ELSE FieldUpdated

\* "stock" goes from a nested-record value without record to a product,
\* "name" from a string to an explicit Null
C5_Witness ==
    /\ ComparedPresent
    /\ DOMAIN oldRecord.Values = Columns
    /\ DOMAIN newRecord.Values = Columns
    /\ oldRecord.Values["stock"] = RecordValue(NilRecord)
    /\ newRecord.Values["stock"] = ProductA
    /\ oldRecord.Values["name"] = StringValue("A")
    /\ newRecord.Values["name"] = NullString
    /\ FieldKinds = {FieldAdded, FieldDeleted}

\* the values of the value model: scalars, Null, arrays and nested records
\* of such values (no nil Value, no unknown variant)
RECURSIVE InValueModel(_)
InValueModel(v) ==
    CASE v.tag \in {"String", "Int", "Float", "Date", "Bool", "Null"} -> TRUE
      [] v.tag = "Array" ->
            \A k \in 1..Len(v.Elements) : InValueModel(v.Elements[k])
      [] v.tag = "Record" ->
            \/ v.Record = NilRecord
            \/ \A c \in DOMAIN v.Record.Values : InValueModel(v.Record.Values[c])
      [] OTHER -> FALSE

RecordInValueModel(r) == \A c \in DOMAIN r.Values : InValueModel(r.Values[c])

\* C2: reflexivity: for a record a of the value model, RecordsEqual(a, a)
\* is true and CompareRecords(a, a, i) is Unchanged with every field delta
\* Unchanged.
C2_Reflexivity ==
    (BothPresent /\ oldRecord = newRecord /\ RecordInValueModel(oldRecord)) =>
        /\ pc = "equal" => equal = "true"
        /\ pc = "compared" =>
              /\ delta.ChangeType = RecordUnchanged
              /\ FieldKinds \subseteq {FieldUnchanged}

\* C3: idempotence: CompareRecordSets(s, s) holds no Added, Modified or
\* Deleted record delta, HasChanges() is false and Summary().Unchanged is
\* s.Count().  (Stated of the calls that return.)
C3_Idempotence ==
    (pc = "setCompared" /\ oldSet # NilSet /\ oldSet = newSet
        /\ setDelta # PanicResult) =>
        /\ \A k \in 1..Len(setDelta.RecordDeltas) :
              setDelta.RecordDeltas[k].ChangeType = RecordUnchanged
        /\ ~RecordSetDeltaHasChanges(setDelta)
        /\ Summary(setDelta).Unchanged = Count(oldSet)

\* a record or value with every column that holds an explicit Null removed,
\* at every depth (fields of nested records, elements of arrays)
RECURSIVE WithoutNullColumns(_)
RECURSIVE ValueWithoutNullColumns(_)
WithoutNullColumns(r) ==
    IF r = NilRecord
    THEN r
    ELSE Record(r.Schema,
                [c \in {x \in DOMAIN r.Values : r.Values[x].tag # "Null"} |->
                    ValueWithoutNullColumns(r.Values[c])])

ValueWithoutNullColumns(v) ==
    CASE v.tag = "Array" ->
            ArrayValue(v.ElementType,
                       [k \in 1..Len(v.Elements) |->
                           ValueWithoutNullColumns(v.Elements[k])])
      [] v.tag = "Record" -> RecordValue(WithoutNullColumns(v.Record))
      [] OTHER -> v

\* C6: two records of the value model that differ only in columns being
\* absent on one side and an explicit Null on the other, at any depth, are
\* not told apart: CompareRecords reports every field Unchanged and
\* RecordsEqual reports equal.
C6_AbsentIsNull ==
    (BothPresent /\ oldRecord # newRecord
        /\ RecordInValueModel(oldRecord) /\ RecordInValueModel(newRecord)
        /\ WithoutNullColumns(oldRecord) = WithoutNullColumns(newRecord)) =>
        /\ pc = "equal" => equal = "true"
        /\ pc = "compared" => FieldKinds \subseteq {FieldUnchanged}

\* C7: the diff engine is total: CompareRecords returns a delta, without
\* panic, whatever absent, nil, Null or non-null values the records hold at
\* whatever depth.
C7_Total == pc = "compared" => delta # PanicResult

\* C8: two non-null values whose reported types differ are never equal: a
\* field holding them on the two sides is Updated; the reported type of an
\* array is its element type, that of a nested record (with a schema) the
\* custom type of the record's schema.
C8_TypesDiffer ==
    ComparedPresent =>
        \A k \in 1..Len(delta.FieldDeltas) :
            LET fd == delta.FieldDeltas[k]
                c == fd.ColumnID
                reported(v) ==
                    IF v.tag = "Array" THEN v.ElementType
                    ELSE IF v.tag = "Record" /\ v.Record.Schema # NilSchema
                    THEN [kind |-> "custom", name |-> v.Record.Schema.ID,
                          schema |-> v.Record.Schema.ptr]
                    ELSE GetType(v)
            IN  (~SideIsNull(oldRecord, c) /\ ~SideIsNull(newRecord, c)) =>
                   /\ GetType(fd.OldValue) = reported(fd.OldValue)
                   /\ GetType(fd.NewValue) = reported(fd.NewValue)
                   /\ reported(fd.OldValue) # reported(fd.NewValue)
                         => fd.ChangeType = FieldUpdated

\* the same product on both sides, but under two schemas (two types)
C8_Witness ==
    /\ ComparedPresent
    /\ DOMAIN oldRecord.Values = {"stock"}
    /\ DOMAIN newRecord.Values = {"stock"}
    /\ oldRecord.Values["stock"] = ProductA
    /\ newRecord.Values["stock"] =
          RecordValue(Record(Product2Schema, OnlyK(StringValue("A"))))
    /\ delta.FieldDeltas[1].ChangeType = FieldUpdated

\* a side holds a value of a variant the engine does not handle
Unhandled(r, c) == c \in DOMAIN r.Values /\ r.Values[c].tag = "Custom"

\* C9: fail-closed: a non-null value of an unhandled variant is unequal to
\* every value, itself included: the field is Updated and the record
\* Modified, and no error is raised.
C9_FailClosed ==
    (pc = "compared" /\ BothPresent) =>
        /\ delta # PanicResult =>
              \A k \in 1..Len(delta.FieldDeltas) :
                 LET fd == delta.FieldDeltas[k]
                     c == fd.ColumnID
                 IN  (/\ Unhandled(oldRecord, c) \/ Unhandled(newRecord, c)
                      /\ ~SideIsNull(oldRecord, c)
                      /\ ~SideIsNull(newRecord, c)) =>
                        /\ fd.ChangeType = FieldUpdated
                        /\ delta.ChangeType = RecordModified
        /\ (/\ UnionColumns = {"name"}
            /\ Unhandled(oldRecord, "name") \/ Unhandled(newRecord, "name"))
              => delta # PanicResult

\* the unhandled value on both sides
C9_Witness ==
    /\ ComparedPresent
    /\ UnionColumns = {"name"}
    /\ Unhandled(oldRecord, "name")
    /\ Unhandled(newRecord, "name")
    /\ delta.FieldDeltas[1].ChangeType = FieldUpdated
    /\ delta.ChangeType = RecordModified

\* C10: RecordsEqual(a, b): both nil gives true; exactly one nil gives
\* false; value maps of different sizes give false; otherwise true iff
\* every column of a is a column of b with a structurally equal value.
\* (Stated of the calls that return.)
C10_RecordsEqual ==
    (pc = "equal" /\ equal # "panic") =>
        equal =
           IF oldRecord = NilRecord /\ newRecord = NilRecord THEN "true"
           ELSE IF oldRecord = NilRecord \/ newRecord = NilRecord THEN "false"
           ELSE IF Cardinality(DOMAIN oldRecord.Values)
                      # Cardinality(DOMAIN newRecord.Values) THEN "false"
           ELSE IF \A c \in DOMAIN oldRecord.Values :
                      /\ c \in DOMAIN newRecord.Values
                      /\ valuesEqual(oldRecord.Values[c], newRecord.Values[c])
                            = {"true"}
                THEN "true"
                ELSE "false"

\* two records with both columns, found equal
C10_Witness ==
    /\ pc = "equal"
    /\ BothPresent
    /\ DOMAIN oldRecord.Values = Columns
    /\ DOMAIN newRecord.Values = Columns
    /\ oldRecord.Values["stock"].tag = "Array"
    /\ equal = "true"

(***************************************************************************)
(* Properties of the array comparison.                                     *)
(***************************************************************************)
OldElements == oldRecord.Values["stock"].Elements
NewElements == newRecord.Values["stock"].Elements

\* CompareRecords was called on two records whose "stock" is an array, and
\* returned
ArraysCompared ==
    /\ ComparedPresent
    /\ DOMAIN oldRecord.Values = {"stock"}
    /\ DOMAIN newRecord.Values = {"stock"}
    /\ oldRecord.Values["stock"].tag = "Array"
    /\ newRecord.Values["stock"].tag = "Array"

\* the key column the options of the call configure for the path "stock"
StockKey == GetArrayKey(NewCompareOptions(options), "stock")

\* the field delta of "stock", the only column
StockDelta == delta.FieldDeltas[1]

\* the engine finds x and y structurally equal
StructurallyEqual(x, y) ==
    valuesEqualWithOptions(x, y, "stock", NewCompareOptions(options)) = {"true"}

\* the field is Unchanged or Updated, and the record Unchanged or Modified
\* with it
StockKindsAgree ==
    \/ StockDelta.ChangeType = FieldUnchanged /\ delta.ChangeType = RecordUnchanged
    \/ StockDelta.ChangeType = FieldUpdated /\ delta.ChangeType = RecordModified

\* C11: with no key configured for the path of the field, two arrays of the
\* same element type are equal iff they have the same length and the
\* elements at every index are structurally equal; so a changed length, a
\* changed element or the same elements in another order give the field
\* Updated and the record Modified.
C11_PositionalArrays ==
    (ArraysCompared /\ StockKey = ""
        /\ oldRecord.Values["stock"].ElementType
              = newRecord.Values["stock"].ElementType) =>
        /\ StockKindsAgree
        /\ StockDelta.ChangeType = FieldUnchanged <=>
              /\ Len(OldElements) = Len(NewElements)
              /\ \A i \in 1..Len(OldElements) :
                    StructurallyEqual(OldElements[i], NewElements[i])
        /\ Len(OldElements) # Len(NewElements) =>
              StockDelta.ChangeType = FieldUpdated

\* the same two products in the other order, a key configured for another
\* path only
C11_Witness ==
    /\ ArraysCompared
    /\ options = <<<<"items", "k">>>>
    /\ Len(OldElements) = 2
    /\ NewElements = <<OldElements[2], OldElements[1]>>
    /\ OldElements[1] = Product(KV(StringValue("A"), IntValue(1)))
    /\ OldElements[2] = Product(OnlyK(IntValue(1)))
    /\ StockDelta.ChangeType = FieldUpdated
    /\ delta.ChangeType = RecordModified

\* the element is a nested record that carries a String or an Int at "k"
CarriesKey(e) ==
    /\ e.tag = "Record"
    /\ e.Record # NilRecord
    /\ "k" \in DOMAIN e.Record.Values
    /\ e.Record.Values["k"].tag \in {"String", "Int"}

\* the elements carry String or Int keys that are pairwise distinct
DistinctKeys(elements) ==
    /\ \A i \in 1..Len(elements) : CarriesKey(elements[i])
    /\ \A i, j \in 1..Len(elements) :
          i # j => elements[i].Record.Values["k"] # elements[j].Record.Values["k"]

\* b holds the elements of a in some order
Reordering(a, b) ==
    /\ Len(a) = Len(b)
    /\ \E ord \in Orders(1..Len(a)) : \A i \in 1..Len(a) : b[i] = a[ord[i]]

\* C12: with a key column configured for the path of the array field, two
\* arrays are equal iff their key-to-element maps have the same size and
\* every key of the old array maps in the new array to a structurally
\* equal element; hence any reordering of nested-record elements that
\* carry pairwise distinct String or Int keys leaves the field Unchanged.
C12_KeyedArrays ==
    (ArraysCompared /\ StockKey = "k") =>
        LET aMap == buildArrayKeyMap(OldElements, "k")
            bMap == buildArrayKeyMap(NewElements, "k")
        IN  /\ StockKindsAgree
            /\ StockDelta.ChangeType = FieldUnchanged <=>
                  /\ Cardinality(DOMAIN aMap) = Cardinality(DOMAIN bMap)
                  /\ \A key \in DOMAIN aMap :
                        /\ key \in DOMAIN bMap
                        /\ StructurallyEqual(aMap[key], bMap[key])
            /\ (DistinctKeys(OldElements) /\ Reordering(OldElements, NewElements))
                  => StockDelta.ChangeType = FieldUnchanged

\* every element is a nested record with a record that carries a non-null
\* value at "k"
AllKeyed(elements) ==
    \A i \in 1..Len(elements) :
        /\ elements[i].tag = "Record"
        /\ elements[i].Record # NilRecord
        /\ "k" \in DOMAIN elements[i].Record.Values
        /\ elements[i].Record.Values["k"] # NilValue
        /\ ~IsNull(elements[i].Record.Values["k"])

KeyOf(e) == e.Record.Values["k"]
KeyValues(elements) == {KeyOf(elements[i]) : i \in 1..Len(elements)}

\* an element was added or removed by key, or an element of the old array
\* and one of the new array have the same key and another content
DiffersByKey(old, new) ==
    \/ KeyValues(old) # KeyValues(new)
    \/ \E i \in 1..Len(old) : \E j \in 1..Len(new) :
          KeyOf(old[i]) = KeyOf(new[j]) /\ old[i] # new[j]

\* no two elements of the array give the same key string
DistinctKeyStrings(elements) ==
    \A i, j \in 1..Len(elements) :
        i # j => valueToString(KeyOf(elements[i])) # valueToString(KeyOf(elements[j]))

\* C13 (as stated): with a key configured, for arrays of non-null nested
\* records that each carry a non-null value at the key column, if the set
\* of key values of the old array differs from that of the new array, or an
\* element with the same key has a different content, the field is Updated
\* and the record is Modified.
C13_KeyDifference ==
    (ArraysCompared /\ StockKey = "k"
        /\ AllKeyed(OldElements) /\ AllKeyed(NewElements)
        /\ DiffersByKey(OldElements, NewElements)) =>
        /\ StockDelta.ChangeType = FieldUpdated
        /\ delta.ChangeType = RecordModified

\* C13 (amended): the same, for arrays in each of which no two elements
\* give the same key string.
C13_KeyDifferenceDistinctKeys ==
    (ArraysCompared /\ StockKey = "k"
        /\ AllKeyed(OldElements) /\ AllKeyed(NewElements)
        /\ DistinctKeyStrings(OldElements) /\ DistinctKeyStrings(NewElements)
        /\ DiffersByKey(OldElements, NewElements)) =>
        /\ StockDelta.ChangeType = FieldUpdated
        /\ delta.ChangeType = RecordModified

\* a product with the key 1 added to an array holding the product "A"
C13_Witness ==
    /\ ArraysCompared
    /\ StockKey = "k"
    /\ OldElements = <<Product(KV(StringValue("A"), IntValue(1)))>>
    /\ NewElements = <<Product(KV(StringValue("A"), IntValue(1))),
                       Product(OnlyK(IntValue(1)))>>
    /\ StockDelta.ChangeType = FieldUpdated
    /\ delta.ChangeType = RecordModified

\* the element is a nested-record value with a record that carries a
\* non-null value at "k"
HasKey(e) ==
    /\ e.tag = "Record"
    /\ e.Record # NilRecord
    /\ "k" \in DOMAIN e.Record.Values
    /\ e.Record.Values["k"] # NilValue
    /\ ~IsNull(e.Record.Values["k"])

\* the kinds CompareRecords gives the field "stock" for these two arrays
StockKinds(old, new) ==
    {d.FieldDeltas[1].ChangeType :
        d \in CompareRecords(StockRecord(old), StockRecord(new), 0, options)
              \ {PanicResult}}

\* C14: when the key map of an array is built, an element is used iff it
\* is a nested-record value with a record that carries a non-null value at
\* the key column; every other element (a scalar, a nested-record value
\* without record, a record whose key column is absent or holds an explicit
\* Null) is skipped, has no influence on whether the two arrays are equal,
\* and raises no error.
C14_SkippedElements ==
    (pc = "compared" /\ StockKey = "k") =>
        /\ delta # PanicResult
        /\ buildArrayKeyMap(OldElements, "k")
              = buildArrayKeyMap(SelectSeq(OldElements, HasKey), "k")
        /\ buildArrayKeyMap(NewElements, "k")
              = buildArrayKeyMap(SelectSeq(NewElements, HasKey), "k")
        /\ StockDelta.ChangeType
              \in StockKinds(SelectSeq(OldElements, HasKey),
                             SelectSeq(NewElements, HasKey))

(***************************************************************************)
(* Properties of the compare options.                                      *)
(***************************************************************************)
\* the positions in the opts that set a key for the path
SettersOf(path) == {n \in 1..Len(options) : options[n][1] = path}

\* C15: the options are applied in the order given and the last
\* WithArrayKey of a path wins; GetArrayKey(path) returns the key column
\* configured for exactly that path, and "" when none is configured for it,
\* when the options are nil or when the key map is nil.
C15_LastKeyWins ==
    (pc = "queried" /\ call.name = "GetArrayKey") =>
        returned =
           IF call.receiver # "options" \/ SettersOf(call.path) = {}
           THEN ""
           ELSE LET last == CHOOSE n \in SettersOf(call.path) :
                               \A m \in SettersOf(call.path) : m <= n
                IN  options[last][2]

\* "stock" is given two keys and "items" one; GetArrayKey("stock") is the
\* second key of "stock"
C15_Witness ==
    /\ pc = "queried"
    /\ call = [name |-> "GetArrayKey", receiver |-> "options", path |-> "stock"]
    /\ options = <<<<"stock", "v">>, <<"stock", "k">>, <<"items", "v">>>>
    /\ returned = "k"

(***************************************************************************)
(* Properties of the comparison of record sets.                            *)
(***************************************************************************)
\* CompareRecordSets was called and returned
SetsCompared == pc = "setCompared" /\ setDelta # PanicResult

OldCount == IF oldSet = NilSet THEN 0 ELSE Len(oldSet.Records)
NewCount == IF newSet = NilSet THEN 0 ELSE Len(newSet.Records)
MaxCount == IF OldCount > NewCount THEN OldCount ELSE NewCount

\* the record of a set at the Go position i, NilRecord when it has none
OldAt(i) == IF i < OldCount THEN oldSet.Records[i + 1] ELSE NilRecord
NewAt(i) == IF i < NewCount THEN newSet.Records[i + 1] ELSE NilRecord

\* the record delta at the Go position i
DeltaAt(i) == setDelta.RecordDeltas[i + 1]

\* C16: CompareRecordSets returns exactly max(|old|, |new|) record deltas,
\* a nil set counting as empty; the delta at position i has Index i and is
\* the comparison of old[i] with new[i]: Unchanged or Modified when both
\* sets have a record at i, Added when only new has one, Deleted when only
\* old has one.  Records are never matched across positions.
C16_ByPosition ==
    SetsCompared =>
        /\ Len(setDelta.RecordDeltas) = MaxCount
        /\ \A i \in 0..(MaxCount - 1) :
              /\ DeltaAt(i).Index = i
              /\ DeltaAt(i) \in CompareRecords(OldAt(i), NewAt(i), i, options)
              /\ DeltaAt(i).OldRecord = OldAt(i)
              /\ DeltaAt(i).NewRecord = NewAt(i)
              /\ (OldAt(i) # NilRecord /\ NewAt(i) # NilRecord) =>
                    DeltaAt(i).ChangeType \in {RecordUnchanged, RecordModified}
              /\ (OldAt(i) = NilRecord /\ NewAt(i) # NilRecord) =>
                    DeltaAt(i).ChangeType = RecordAdded
              /\ (OldAt(i) # NilRecord /\ NewAt(i) = NilRecord) =>
                    DeltaAt(i).ChangeType = RecordDeleted

\* old = [A, B], new = [B]: B moved to the front is Modified at 0 and
\* Deleted at 1
C16_Witness ==
    /\ SetsCompared
    /\ OldCount = 2
    /\ NewCount = 1
    /\ OldAt(0) = StoreRecord([c \in {"name"} |-> StringValue("A")])
    /\ OldAt(1) = StoreRecord([c \in {"name"} |-> StringValue("B")])
    /\ NewAt(0) = OldAt(1)
    /\ DeltaAt(0).ChangeType = RecordModified
    /\ DeltaAt(1).ChangeType = RecordDeleted

\* a query was made on the delta that CompareRecordSets returned
SetQueried(name) == pc = "setQueried" /\ call.name = name

\* the positions of the record deltas of the kind changeType
PositionsOfKind(changeType) ==
    {k \in 1..Len(setDelta.RecordDeltas) :
        setDelta.RecordDeltas[k].ChangeType = changeType}

CountKind(changeType) == Cardinality(PositionsOfKind(changeType))

\* C17: Summary() tallies the record deltas: Added, Modified, Deleted and
\* Unchanged are each the number of deltas of that kind and Total is the
\* number of deltas; for a delta produced by CompareRecordSets,
\* Added + Modified + Deleted + Unchanged = Total = max(|old|, |new|).
C17_Summary ==
    SetQueried("Summary") =>
        /\ returned.Added = CountKind(RecordAdded)
        /\ returned.Modified = CountKind(RecordModified)
        /\ returned.Deleted = CountKind(RecordDeleted)
        /\ returned.Unchanged = CountKind(RecordUnchanged)
        /\ returned.Total = Len(setDelta.RecordDeltas)
        /\ returned.Added + returned.Modified + returned.Deleted
              + returned.Unchanged = returned.Total
        /\ returned.Total = MaxCount

\* old = [A, B], new = [A]: one Unchanged and one Deleted
C17_Witness ==
    /\ SetQueried("Summary")
    /\ OldCount = 2
    /\ NewCount = 1
    /\ returned = DeltaSummary(0, 0, 1, 1, 2)

\* the record deltas of the kind changeType, in the order of the delta
\* list: the j-th of them is the one at the j-th smallest position
InOrderOfKind(changeType) ==
    [j \in 1..CountKind(changeType) |->
        LET p == CHOOSE q \in PositionsOfKind(changeType) :
                    Cardinality({r \in PositionsOfKind(changeType) : r <= q}) = j
        IN  setDelta.RecordDeltas[p]]

Range(seq) == {seq[k] : k \in 1..Len(seq)}

\* the four views of the delta
Views ==
    <<AddedRecords(setDelta), ModifiedRecords(setDelta),
      DeletedRecords(setDelta), UnchangedRecords(setDelta)>>

KindOfView(name) ==
    CASE name = "AddedRecords" -> RecordAdded
      [] name = "ModifiedRecords" -> RecordModified
      [] name = "DeletedRecords" -> RecordDeleted
      [] name = "UnchangedRecords" -> RecordUnchanged

ViewNames ==
    {"AddedRecords", "ModifiedRecords", "DeletedRecords", "UnchangedRecords"}

\* C18: the views of a RecordSetDelta agree with its delta list:
\* AddedRecords, ModifiedRecords, DeletedRecords and UnchangedRecords each
\* hold exactly the deltas of their kind in their original order, are
\* pairwise disjoint and together cover every delta of a CompareRecordSets
\* result; Get(i) returns the delta whose Index is i (the i-th delta for
\* 0 <= i < n) and nil for any other i, negative i included.
C18_Views ==
    /\ (pc = "setQueried" /\ call.name \in ViewNames) =>
          /\ returned = InOrderOfKind(KindOfView(call.name))
          /\ \A a, b \in 1..4 : a # b => Range(Views[a]) \cap Range(Views[b]) = {}
          /\ UNION {Range(Views[a]) : a \in 1..4} = Range(setDelta.RecordDeltas)
          /\ Len(Views[1]) + Len(Views[2]) + Len(Views[3]) + Len(Views[4])
                = Len(setDelta.RecordDeltas)
    /\ SetQueried("Get") =>
          IF 0 <= call.index /\ call.index < Len(setDelta.RecordDeltas)
          THEN /\ returned = DeltaAt(call.index)
               /\ returned.Index = call.index
          ELSE returned = NilRecordDelta

\* Get(1) on the delta of old = [A], new = [A, B]: the Added delta
C18_Witness ==
    /\ SetQueried("Get")
    /\ call.index = 1
    /\ OldCount = 1
    /\ NewCount = 2
    /\ returned # NilRecordDelta
    /\ returned.Index = 1
    /\ returned.ChangeType = RecordAdded

(***************************************************************************)
(* Properties of the queries on a RecordDelta.                             *)
(***************************************************************************)
\* a query was made on the delta that CompareRecords returned
Queried(name) == pc = "queried" /\ call.name = name

\* the column ids whose field delta has one of the kinds
ColumnsOfKinds(kinds) ==
    {delta.FieldDeltas[k].ColumnID :
        k \in {j \in 1..Len(delta.FieldDeltas) :
                  delta.FieldDeltas[j].ChangeType \in kinds}}

\* the list holds exactly these column ids, each once
ListsExactly(list, columns) ==
    Range(list) = columns /\ Len(list) = Cardinality(columns)

\* C19: the queries of a RecordDelta agree with its field deltas:
\* HasChanges() is true iff the kind is not Unchanged; AddedFields,
\* UpdatedFields and DeletedFields list exactly the column ids whose field
\* delta has that kind, ChangedFields exactly the ids of the field deltas
\* that are not Unchanged (the disjoint union of the three);
\* GetFieldDelta(id) returns the field delta of the column id, or nil when
\* there is none.  For a delta of two present records, HasChanges() holds
\* iff ChangedFields() is not empty.
C19_RecordDeltaQueries ==
    /\ Queried("HasChanges") =>
          /\ returned = (delta.ChangeType # RecordUnchanged)
          /\ BothPresent => (returned <=> ChangedFields(delta) # <<>>)
    /\ Queried("AddedFields") =>
          ListsExactly(returned, ColumnsOfKinds({FieldAdded}))
    /\ Queried("UpdatedFields") =>
          ListsExactly(returned, ColumnsOfKinds({FieldUpdated}))
    /\ Queried("DeletedFields") =>
          ListsExactly(returned, ColumnsOfKinds({FieldDeleted}))
    /\ Queried("ChangedFields") =>
          /\ ListsExactly(returned,
                ColumnsOfKinds({FieldAdded, FieldUpdated, FieldDeleted}))
          /\ Range(returned) = Range(AddedFields(delta))
                \cup Range(UpdatedFields(delta)) \cup Range(DeletedFields(delta))
          /\ Len(returned) = Len(AddedFields(delta))
                + Len(UpdatedFields(delta)) + Len(DeletedFields(delta))
    /\ Queried("GetFieldDelta") =>
          IF \E k \in 1..Len(delta.FieldDeltas) :
                delta.FieldDeltas[k].ColumnID = call.columnID
          THEN /\ returned # NilFieldDelta
               /\ returned.ColumnID = call.columnID
               /\ returned \in Range(delta.FieldDeltas)
          ELSE returned = NilFieldDelta

\* a delta with an added, an updated and a deleted field, asked for its
\* changed fields
C19_Witness ==
    /\ Queried("ChangedFields")
    /\ BothPresent
    /\ Len(AddedFields(delta)) = 1
    /\ Len(UpdatedFields(delta)) = 1
    /\ Len(DeletedFields(delta)) = 1
    /\ Len(returned) = 3

(***************************************************************************)
(* Properties of the conversion of a delta.                                *)
(***************************************************************************)
KindName(changeType) ==
    CASE changeType = RecordUnchanged -> "unchanged"
      [] changeType = RecordAdded -> "added"
      [] changeType = RecordModified -> "modified"
      [] changeType = RecordDeleted -> "deleted"

\* C20: ToRecordSet on a RecordSetDelta with n record deltas yields a
\* RecordSet with the schema id "Delta" and exactly n records, in the order
\* of the deltas, where record k holds index = the Index of delta k as an
\* int, change_type = the string of the kind (unchanged, added, modified,
\* deleted), and old / new = nested-record values wrapping exactly the
\* OldRecord / NewRecord of the delta (no record when the delta has none).
C20_ToRecordSet ==
    SetQueried("ToRecordSet") =>
        /\ returned.Schema.ID = "Delta"
        /\ Len(returned.Records) = Len(setDelta.RecordDeltas)
        /\ \A k \in 1..Len(setDelta.RecordDeltas) :
              LET record == returned.Records[k]
                  rd == setDelta.RecordDeltas[k]
              IN  /\ record.Schema = returned.Schema
                  /\ DOMAIN record.Values = {"index", "change_type", "old", "new"}
                  /\ record.Values["index"] = [tag |-> "Int", int |-> rd.Index]
                  /\ record.Values["change_type"]
                        = [tag |-> "String", str |-> KindName(rd.ChangeType)]
                  /\ record.Values["old"] = [tag |-> "Record", Record |-> OldAt(k - 1)]
                  /\ record.Values["new"] = [tag |-> "Record", Record |-> NewAt(k - 1)]
                  /\ record.Values["old"].Record = rd.OldRecord
                  /\ record.Values["new"].Record = rd.NewRecord

\* the delta of old = [A, B], new = [B] as two records: "modified" with
\* both records, "deleted" with no new record
C20_Witness ==
    /\ SetQueried("ToRecordSet")
    /\ OldCount = 2
    /\ NewCount = 1
    /\ Len(returned.Records) = 2
    /\ returned.Records[1].Values["change_type"] = StringValue("modified")
    /\ returned.Records[2].Values["change_type"] = StringValue("deleted")
    /\ returned.Records[2].Values["index"] = IntValue(1)
    /\ returned.Records[2].Values["new"] = RecordValue(NilRecord)
    /\ returned.Records[2].Values["old"] = RecordValue(OldAt(1))

\* C21: ToRecordSet does not fail on a delta without a schema.  The schema of
\* the result always has the four columns index:int, change_type:string,
\* old, new; old and new are declared with the custom type of the delta's
\* schema when the delta has one and with the plain string type when it has
\* none, and in both cases the result holds one record per record delta.
C21_SchemaFallback ==
    SetQueried("ToRecordSet") =>
        LET columns == returned.Schema.Columns
            refSchema == IF setDelta.Schema = NilSchema
                         THEN [kind |-> "native", name |-> "string", schema |-> "-"]
                         ELSE [kind |-> "custom", name |-> setDelta.Schema.ID,
                               schema |-> setDelta.Schema.ptr]
        IN  /\ returned # PanicResult
            /\ Len(columns) = 4
            /\ columns[1] = [ID |-> "index", SchemaType |-> NativeTypeInt]
            /\ columns[2] = [ID |-> "change_type", SchemaType |-> NativeTypeString]
            /\ columns[3] = [ID |-> "old", SchemaType |-> refSchema]
            /\ columns[4] = [ID |-> "new", SchemaType |-> refSchema]
            /\ Len(returned.Records) = Len(setDelta.RecordDeltas)
            /\ Len(setDelta.RecordDeltas) = MaxCount

\* the delta of a nil old set and a new set of two records without schema,
\* converted: two records, old and new typed as plain strings
C21_Witness ==
    /\ SetQueried("ToRecordSet")
    /\ setDelta.Schema = NilSchema
    /\ oldSet = NilSet
    /\ NewCount = 2
    /\ Len(returned.Records) = 2
    /\ returned.Schema.Columns[3].SchemaType = NativeTypeString
    /\ returned.Schema.Columns[4].SchemaType = NativeTypeString

(***************************************************************************)
(* Properties of the comparison of record objects.                         *)
(***************************************************************************)
Comparing == pc = "build" /\ pc' \in {"compared", "equal", "setCompared"}

InputsUnchanged ==
    /\ oldRecord' = oldRecord
    /\ newRecord' = newRecord
    /\ oldSet' = oldSet
    /\ newSet' = newSet

\* the record delta rd refers to the objects old and new and its field
\* deltas to the values these hold (nil for a column a record does not have)
RefersTo(rd, old, new) ==
    /\ rd.OldRecord = old
    /\ rd.NewRecord = new
    /\ \A k \in 1..Len(rd.FieldDeltas) :
          LET fd == rd.FieldDeltas[k]
          IN  /\ fd.OldValue = Get(old, fd.ColumnID)
              /\ fd.NewValue = Get(new, fd.ColumnID)

\* C22: comparison is read-only.  A call of CompareRecords, RecordsEqual or
\* CompareRecordSets leaves both input records and both input record sets,
\* with all their values, as they were; the delta CompareRecords returns
\* holds the very input record objects as OldRecord / NewRecord and the very
\* values of their columns as OldValue / NewValue, and so does the record
\* delta of every position of the delta CompareRecordSets returns.
C22_ReadOnly ==
    [][Comparing =>
          /\ InputsUnchanged
          /\ (pc' = "compared" /\ delta' # PanicResult) =>
                RefersTo(delta', oldRecord, newRecord)
          /\ (pc' = "setCompared" /\ setDelta' # PanicResult) =>
                /\ Len(setDelta'.RecordDeltas) = MaxCount
                /\ \A k \in 1..MaxCount :
                      RefersTo(setDelta'.RecordDeltas[k],
                               OldAt(k - 1), NewAt(k - 1))]_vars

\* the sets [r3, r1] and [r3, r2] compared: the second record delta holds
\* the object r1 as old and the object r2, of the same content, as new, and
\* the field delta of the first holds the nested object p1
C22_Witness ==
    /\ pc = "setCompared"
    /\ setDelta # PanicResult
    /\ OldCount = 2
    /\ NewCount = 2
    /\ OldAt(0).ptr = "r3"
    /\ OldAt(1).ptr = "r1"
    /\ NewAt(1).ptr = "r2"
    /\ setDelta.RecordDeltas[2].OldRecord.ptr = "r1"
    /\ setDelta.RecordDeltas[2].NewRecord.ptr = "r2"
    /\ setDelta.RecordDeltas[2].ChangeType = RecordUnchanged
    /\ \E k \in 1..Len(setDelta.RecordDeltas[1].FieldDeltas) :
          LET fd == setDelta.RecordDeltas[1].FieldDeltas[k]
          IN  /\ fd.ColumnID = "name"
              /\ fd.OldValue.Record.ptr = "p1"
              /\ fd.ChangeType = FieldUnchanged

(***************************************************************************)
(* Properties of the values of a field delta.                              *)
(***************************************************************************)
\* C23: in every FieldDelta of a delta CompareRecords returns, OldValue is
\* nil when the kind is Added and NewValue is nil when the kind is Deleted.
C23_AbsentValues ==
    (pc = "compared" /\ delta # PanicResult) =>
        \A k \in 1..Len(delta.FieldDeltas) :
            LET fd == delta.FieldDeltas[k]
            IN  /\ fd.ChangeType = FieldAdded => fd.OldValue = NilValue
                /\ fd.ChangeType = FieldDeleted => fd.NewValue = NilValue

(***************************************************************************)
(* Properties of the functional primitives of RecordSet.                   *)
(***************************************************************************)
PrimitiveNames ==
    {"Filter", "Map", "ForEach", "Any", "All", "Take", "Skip", "SkipTake",
     "Reduce"}

\* result holds exactly the records of rs at the positions kept, in the
\* order of rs
KeepsInOrder(result, rs, kept) ==
    /\ Len(result.Records) = Cardinality(kept)
    /\ \E f \in [1..Len(result.Records) -> kept] :
          /\ \A j, k \in 1..Len(result.Records) : j < k => f[j] < f[k]
          /\ \A k \in 1..Len(result.Records) : result.Records[k] = rs.Records[f[k]]

Positions(rs) == 1..Len(rs.Records)

\* C24: the functional primitives never change the receiver.  Every call of
\* Filter, Map, ForEach, Any, All, Take, Skip or Reduce, after any sequence
\* of calls, leaves the schema and the record sequence of the receiver as
\* they were, and a step that changes the receiver is an Add.  What Filter,
\* Take and Skip return is a RecordSet with the receiver's schema holding
\* the kept records in the receiver's order (Filter: the records the
\* predicate accepts; Take(n): the first n; Skip(n): all but the first n),
\* and what Map returns is a RecordSet with the receiver's schema holding at
\* each position the transform of the receiver's record at that position.
C24_ReceiverUnchanged ==
    [][/\ call'.name \in PrimitiveNames => oldSet' = oldSet
       /\ oldSet' # oldSet => call'.name = "Add"
       /\ (call'.name \in {"Filter", "Map", "Take", "Skip"}
              /\ returned' # PanicResult) =>
             returned'.Schema = oldSet.Schema
       /\ call'.name = "Filter" =>
             KeepsInOrder(returned', oldSet,
                {k \in Positions(oldSet) :
                    predicate(call'.callback, oldSet.Records[k])})
       /\ call'.name = "Take" =>
             KeepsInOrder(returned', oldSet,
                {k \in Positions(oldSet) : k <= call'.n})
       /\ (call'.name = "Skip" /\ returned' # PanicResult) =>
             KeepsInOrder(returned', oldSet,
                {k \in Positions(oldSet) : k > call'.n})
       /\ call'.name = "Map" =>
             /\ Len(returned'.Records) = Len(oldSet.Records)
             /\ \A k \in Positions(oldSet) :
                   returned'.Records[k]
                      = transform(call'.callback, oldSet.Records[k])]_vars

\* Filter on the receiver [B, A, D] with a predicate that rejects A: the
\* result is [B, D] and the receiver still holds its three records
C24_Witness ==
    /\ call = [name |-> "Filter", callback |-> "notA"]
    /\ oldSet.Records = <<NamedRecord("B"), NamedRecord("A"), NamedRecord("D")>>
    /\ returned.Records = <<NamedRecord("B"), NamedRecord("D")>>
    /\ returned.Schema = oldSet.Schema

(***************************************************************************)
(* Properties of the typed accessors.                                      *)
(***************************************************************************)
Accessed(name) == pc = "accessed" /\ call.name = name

\* the column asked for holds a value of the variant
Holds(variant) ==
    /\ call.columnID \in DOMAIN oldRecord.Values
    /\ oldRecord.Values[call.columnID].tag = variant

Stored == oldRecord.Values[call.columnID]

\* C25: the typed accessors are lenient and total.  For every record and
\* column id each of GetString, GetInt, GetFloat, GetDate, GetBool, GetArray
\* and GetRecord returns a value of its result type: the stored content when the
\* column holds the matching variant, and the zero value (empty string, 0,
\* 0.0, zero time, false, nil slice, nil record) when the column is absent,
\* holds Null or holds any other variant.
C25_Accessors ==
    /\ Accessed("GetString") =>
          returned = IF Holds("String") THEN Stored.str ELSE ""
    /\ Accessed("GetInt") =>
          returned = IF Holds("Int") THEN Stored.int ELSE 0
    /\ Accessed("GetFloat") =>
          returned = IF Holds("Float")
                     THEN [float |-> Stored.float, nan |-> Stored.nan]
                     ELSE [float |-> 0, nan |-> FALSE]
    /\ Accessed("GetDate") =>
          returned = IF Holds("Date")
                     THEN [instant |-> Stored.instant, loc |-> Stored.loc]
                     ELSE [instant |-> 0, loc |-> "UTC"]
    /\ Accessed("GetBool") =>
          returned = IF Holds("Bool") THEN Stored.bool ELSE FALSE
    /\ Accessed("GetArray") =>
          IF Holds("Array") THEN returned = Stored.Elements
                            ELSE returned = NilSlice
    /\ Accessed("GetRecord") =>
          returned = IF Holds("Record") THEN Stored.Record ELSE NilRecord

\* GetString on a column that holds IntValue(1), beside a column that holds
\* a Null: the result is the empty string
C25_Witness ==
    /\ Accessed("GetString")
    /\ call.columnID = "name"
    /\ Get(oldRecord, "name") = IntValue(1)
    /\ returned = ""

(***************************************************************************)
(* Properties of the keys of deeper field paths.                           *)
(***************************************************************************)
\* the ids of the top-level columns that hold an array in a compared record
TopLevelArrayColumns ==
    {c \in UnionColumns :
        Get(oldRecord, c).tag = "Array" \/ Get(newRecord, c).tag = "Array"}

\* the option is a key for a top-level array column
IsTopLevelKey(option) == option[1] \in TopLevelArrayColumns

\* the options without the keys of the other paths
TopLevelKeys == SelectSeq(options, IsTopLevelKey)

\* C26: a key configured for a field path that is not the id of a top-level
\* array column of the compared records (such as "store.stock") never
\* influences the result: CompareRecords, and CompareRecordSets on sets of
\* these records, return with the given options exactly the deltas they
\* return with the options from which the keys of such paths are removed,
\* so that arrays inside nested records and inside the elements of a keyed
\* array are compared by position.
C26_DeeperPaths ==
    pc = "compared" =>
        /\ delta \in CompareRecords(oldRecord, newRecord, 0, TopLevelKeys)
        /\ CompareRecords(oldRecord, newRecord, 0, options)
              = CompareRecords(oldRecord, newRecord, 0, TopLevelKeys)
        /\ CompareRecordSets(RecordSet(StoreSchema, <<oldRecord>>),
                             RecordSet(StoreSchema, <<newRecord>>), options)
              = CompareRecordSets(RecordSet(StoreSchema, <<oldRecord>>),
                                  RecordSet(StoreSchema, <<newRecord>>),
                                  TopLevelKeys)

\* keys for stock, store.stock and stock.v; the nested store records and the
\* elements of the keyed stock hold the same products in another order, and
\* both columns are Updated
C26_Witness ==
    /\ pc = "compared"
    /\ delta # PanicResult
    /\ options = <<<<"store.stock", "k">>, <<"stock", "k">>>>
    /\ Get(oldRecord, "store") = StoreOf(ProductsAB)
    /\ Get(newRecord, "store") = StoreOf(ProductsBA)
    /\ Get(oldRecord, "stock") = HoldersOf(ProductsAB)
    /\ Get(newRecord, "stock") = HoldersOf(ProductsBA)
    /\ \A k \in 1..2 : delta.FieldDeltas[k].ChangeType = FieldUpdated

(***************************************************************************)
(* Symmetry.                                                               *)
(***************************************************************************)
\* the kind of a field when old and new are swapped
SwappedKind(changeType) ==
    CASE changeType = FieldAdded -> FieldDeleted
      [] changeType = FieldDeleted -> FieldAdded
      [] OTHER -> changeType

\* d is the record delta rd with old and new swapped in every field
IsSwapOf(d, rd) ==
    /\ Len(d.FieldDeltas) = Len(rd.FieldDeltas)
    /\ \A k \in 1..Len(rd.FieldDeltas) :
          \E j \in 1..Len(d.FieldDeltas) :
             /\ d.FieldDeltas[j].ColumnID = rd.FieldDeltas[k].ColumnID
             /\ d.FieldDeltas[j].ChangeType
                   = SwappedKind(rd.FieldDeltas[k].ChangeType)
             /\ d.FieldDeltas[j].OldValue = rd.FieldDeltas[k].NewValue
             /\ d.FieldDeltas[j].NewValue = rd.FieldDeltas[k].OldValue

\* C27: RecordsEqual is symmetric: RecordsEqual(b, a) has the outcomes of
\* RecordsEqual(a, b), so it returns what RecordsEqual(a, b) returned; and
\* CompareRecords(b, a) reports for every column the kind
\* CompareRecords(a, b) reported with Added and Deleted exchanged, Unchanged
\* and Updated staying as they are.  (A call that can panic, the matter of
\* C7, can panic in both directions.)
C27_Symmetry ==
    /\ pc = "equal" =>
          /\ RecordsEqual(newRecord, oldRecord)
                = RecordsEqual(oldRecord, newRecord)
          /\ equal # "panic" =>
                RecordsEqual(newRecord, oldRecord) \ {"panic"} = {equal}
    /\ (pc = "compared" /\ BothPresent) =>
          LET swapped == CompareRecords(newRecord, oldRecord, index, options)
          IN  /\ PanicResult \in swapped <=>
                    PanicResult
                       \in CompareRecords(oldRecord, newRecord, index, options)
              /\ delta # PanicResult =>
                    /\ swapped \ {PanicResult} # {}
                    /\ \A d \in swapped \ {PanicResult} : IsSwapOf(d, delta)

\* old holds a name and new another name and a stock: the name is Updated
\* and the stock Added, which the swapped call reports Updated and Deleted
C27_Witness ==
    /\ ComparedPresent
    /\ DOMAIN oldRecord.Values = {"name"}
    /\ DOMAIN newRecord.Values = {"name", "stock"}
    /\ FieldKinds = {FieldUpdated, FieldAdded}
    /\ \E d \in CompareRecords(newRecord, oldRecord, index, options) :
          {d.FieldDeltas[k].ChangeType : k \in 1..2}
             = {FieldUpdated, FieldDeleted}

(***************************************************************************)
(* Properties of the elements that share a key.                            *)
(***************************************************************************)
\* the element enters the key map: a nested record with a record whose key
\* column holds a value
EntersKeyMap(e) ==
    /\ e.tag = "Record"
    /\ e.Record # NilRecord
    /\ Get(e.Record, "k") # NilValue

KeyString(e) == valueToString(Get(e.Record, "k"))

\* a later element of the array yields the same key string
Shadowed(elements, i) ==
    /\ EntersKeyMap(elements[i])
    /\ \E j \in (i + 1)..Len(elements) :
          /\ EntersKeyMap(elements[j])
          /\ KeyString(elements[j]) = KeyString(elements[i])

\* the array without its shadowed elements
Unshadowed(elements) ==
    LET keep == {i \in 1..Len(elements) : ~Shadowed(elements, i)}
        nth(k) == CHOOSE i \in keep : Cardinality({j \in keep : j < i}) = k - 1
    IN  [k \in 1..Cardinality(keep) |-> elements[nth(k)]]

\* C28: in key-based array comparison, when several elements of one array
\* yield the same key string, only the last of them in array order takes
\* part: the comparison gives what it gives for the arrays without their
\* shadowed elements, and two arrays that are the same once their shadowed
\* elements are left out compare equal (the field is Unchanged).
C28_Shadowing ==
    (ArraysCompared /\ StockKey = "k") =>
        /\ StockKinds(OldElements, NewElements)
              = StockKinds(Unshadowed(OldElements), Unshadowed(NewElements))
        /\ Unshadowed(OldElements) = Unshadowed(NewElements) =>
              StockDelta.ChangeType = FieldUnchanged

(***************************************************************************)
(* Determinism.                                                            *)
(***************************************************************************)
\* the (column id, field kind, old value, new value) entries of a delta
Entries(rd) == {rd.FieldDeltas[k] : k \in 1..Len(rd.FieldDeltas)}

\* two outcomes of one call that differ at most in the order of the field
\* deltas
SameUpToOrder(d1, d2) ==
    IF d1 = PanicResult \/ d2 = PanicResult
    THEN d1 = d2
    ELSE /\ d1.ChangeType = d2.ChangeType
         /\ d1.Index = d2.Index
         /\ d1.OldRecord = d2.OldRecord
         /\ d1.NewRecord = d2.NewRecord
         /\ Len(d1.FieldDeltas) = Len(d2.FieldDeltas)
         /\ Entries(d1) = Entries(d2)

\* C29: CompareRecords is deterministic up to the order of its field
\* deltas: for fixed records, index and options, whatever order the column
\* ids of the value maps and the keys of the array key maps are iterated in,
\* the call has the same outcome: the same record kind and the same set of
\* (column id, field kind, old value, new value) entries.
C29_Deterministic ==
    pc = "compared" =>
        \A d \in CompareRecords(oldRecord, newRecord, index, options) :
            SameUpToOrder(d, delta)

(***************************************************************************)
(* Properties of Take and Skip.                                            *)
(***************************************************************************)
Min(a, b) == IF a < b THEN a ELSE b
Max(a, b) == IF a > b THEN a ELSE b

\* the records of rs from the position first to the position last (from 1)
Slice(rs, first, last) ==
    [k \in 1..Max(last - first + 1, 0) |-> rs.Records[first + k - 1]]

\* C30: Take and Skip split a RecordSet: for every n, negative n included,
\* Take(n) and Skip(n) return; Take(n) holds the first min(max(n, 0), Count)
\* records and Skip(n) the remaining ones in order, so that the records of
\* Take(n) followed by those of Skip(n) are the records of rs; and
\* Skip(a).Take(b) is the page of at most b records starting at position a.
C30_TakeSkipSplit ==
    LET count == Len(oldSet.Records)
    IN  /\ call.name = "Take" =>
              /\ returned # PanicResult
              /\ returned.Records
                    = Slice(oldSet, 1, Min(Max(call.n, 0), count))
              /\ Skip(oldSet, call.n) # PanicResult
              /\ returned.Records \o Skip(oldSet, call.n).Records
                    = oldSet.Records
        /\ call.name = "Skip" =>
              /\ returned # PanicResult
              /\ returned.Records
                    = Slice(oldSet, Min(Max(call.n, 0), count) + 1, count)
        /\ call.name = "SkipTake" =>
              /\ returned # PanicResult
              /\ returned.Records
                    = Slice(oldSet, Max(call.a, 0) + 1,
                            Min(Max(call.a, 0) + Max(call.b, 0), count))

====
